---- MODULE Spec2Model ----
(***************************************************************************)
(* Model of the Wikipedia mobile UI test suite: the Driver wrapper         *)
(* (utils/driver.py), the page objects (pages/), the handlers              *)
(* (pages/handlers/) and the life cycle of one test of TestAuthentication  *)
(* (tests/conftest.py, tests/test_auth.py).                                *)
(*                                                                         *)
(* A call of the Python code is an operator from a machine record          *)
(*   m = [app, sess, log, exc, ret]                                        *)
(* to the machine record after the call: app is the screen state of the    *)
(* application under test, sess the remote session, log the history of     *)
(* driver commands and of calls/returns, exc the pending exception         *)
(* ("none" when the call returned) and ret the returned value.             *)
(* Timeouts are not modelled as durations: a wait either finds its         *)
(* element in the awaited condition or ends with TimeoutException.         *)
(*                                                                         *)
(* Spec is the life cycle of one test; UnitSpec applies single functions   *)
(* (the waits, the query helpers, the clearing statistics, the retry       *)
(* wrapper) to drawn inputs.                                               *)
(***************************************************************************)
EXTENDS Integers, Sequences, FiniteSets, TLC

VARIABLES
    test,        \* the test of TestAuthentication being run
    platformOpt, \* the value of the --platform option
    cfg,         \* how the application answers (accepts the login, shows dialogs)
    app,         \* screen state of the application under test
    sess,        \* "none" | "alive" | "quit": the remote driver session
    drv,         \* driver_instance.driver of the driver fixture: "None" | "set"
    log,         \* history: driver commands, app events, calls and returns
    pc,          \* position in the life cycle of the test
    outcome,     \* "running" | "passed" | "failed" | "error"
    unit         \* the call of a single function on drawn inputs, and its result

vars == <<test, platformOpt, cfg, app, sess, drv, log, pc, outcome, unit>>

\* Call(name, m, a): the call of the function name on machine m with the
\* arguments a; the functions call each other through it.
RECURSIVE Call(_, _, _)

----------------------------------------------------------------------------
(* Exceptions and values *)

NoExc == "none"
TimeoutException == "TimeoutException"
NoSuchElementException == "NoSuchElementException"
WebDriverException == "WebDriverException"
AssertionError == "AssertionError"
PlainException == "Exception"
AttributeError == "AttributeError"

\* Python values are modelled as strings: "True", "False", "None", or a text.
None == "None"

PyBool(b) == IF b THEN "True" ELSE "False"

\* Python truthiness of a returned value.
Truthy(v) == v \notin {"False", "None", ""}

Raised(m) == m.exc # NoExc

\* F applied to the value of v, which is computed once.
Strict(v, F(_)) == CHOOSE y \in {F(x) : x \in {v}} : TRUE

Return(m, v) == [m EXCEPT !.exc = NoExc, !.ret = v]

Raise(m, e) == [m EXCEPT !.exc = e, !.ret = None]

Event(m, e) == [m EXCEPT !.log = Append(@, e)]

----------------------------------------------------------------------------
(* Test data (tests/test_auth.py) and what the application makes of it *)

VALID_USERNAME == "AutotestUsr"
VALID_PASSWORD == "AutotestPwd"
INVALID_USERNAME == "nonexistent_user"
INVALID_PASSWORD == "wrong_password"

\* Placeholders an empty field reports as its value (pages/locators.py).
USERNAME_PLACEHOLDER == "enter username"
PASSWORD_PLACEHOLDER == "enter password"

----------------------------------------------------------------------------
(* Locators (pages/locators.py and the inline selectors of the code) *)

PROFILE_BUTTON == "PROFILE_BUTTON"
LOGIN_BUTTON == "LOGIN_BUTTON"
USERNAME_FIELD == "USERNAME_FIELD"
PASSWORD_FIELD == "PASSWORD_FIELD"
REMEMBER_ME_CHECKBOX == "REMEMBER_ME_CHECKBOX"
LOGIN_SUBMIT_BUTTON == "LOGIN_SUBMIT_BUTTON"
LOGOUT_BUTTON == "LOGOUT_BUTTON"
\* CONFIRM_LOGOUT_BUTTON is the same selector as LOGOUT_BUTTON.
CONFIRM_LOGOUT_BUTTON == LOGOUT_BUTTON
SAVE_PASSWORD_DIALOG == "SAVE_PASSWORD_DIALOG"
SAVE_PASSWORD_BUTTON == "SAVE_PASSWORD_BUTTON"
SAVE_PASSWORD_NOT_NOW == "SAVE_PASSWORD_NOT_NOW"
READING_LIST_SYNC_DIALOG == "READING_LIST_SYNC_DIALOG"
READING_LIST_SYNC_BUTTON == "READING_LIST_SYNC_BUTTON"
NEXT_KEYBOARD_BUTTON == "NEXT_KEYBOARD_BUTTON"
CAPTCHA_TEXT == "CAPTCHA_TEXT"
CAPTCHA_CANCEL_BUTTON == "CAPTCHA_CANCEL_BUTTON"
\* '//XCUIElementTypeStaticText[contains(@value, "Incorrect") or ...]'
ERROR_XPATH == "ERROR_XPATH"
\* '//XCUIElementTypeStaticText[@name="Log in to your account"]'
LOGIN_HEADER == "LOGIN_HEADER"

----------------------------------------------------------------------------
(* The application under test, as the code addresses it.                   *)
(* screen: "main" (Explore feed with the profile button), "profile" (the   *)
(* menu the profile button opens), "login" (the form headed "Log in to     *)
(* your account"), "confirm" (the log-out confirmation) or "terminated".   *)
(* profile: the profile button of the main screen, "visible", "hidden"     *)
(* (there, but not displayed) or "absent"; landing is what it will be on   *)
(* the main screen that follows a login.  lost: the session is lost when   *)
(* the login form is submitted.  stuck: the Cancel button does not take a  *)
(* tap (the click raises).                                                 *)

Screens == {"main", "profile", "login", "confirm", "terminated"}

AppState(platform, screen, loggedIn, captcha) ==
    [platform |-> platform, screen |-> screen, loggedIn |-> loggedIn, error |-> "",
     saveDlg |-> FALSE, syncDlg |-> FALSE, captcha |-> captcha,
     user |-> "", pass |-> "", remember |-> FALSE, keys |-> "exact",
     profile |-> "visible", landing |-> "visible", lost |-> FALSE, stuck |-> FALSE]

\* The screens a test can find the app on: options.no_reset = True keeps the
\* state an earlier test left (main screen, login page, logged in).
InitialApps(platform) ==
    {AppState(platform, "main", FALSE, FALSE), AppState(platform, "main", TRUE, FALSE),
     AppState(platform, "login", FALSE, FALSE), AppState(platform, "login", FALSE, TRUE)}

Configs ==
    [accept : BOOLEAN, saveDlg : BOOLEAN, syncDlg : BOOLEAN, confirm : BOOLEAN]

\* The login submit button is enabled once both credential fields hold text.
SubmitEnabled(a) == a.user # "" /\ a.pass # ""

\* "absent" | "hidden" | "visible": the element a locator selects on the screen.
\* Every selector names an XCUIElementType, which only the iOS app has.
ElemState(a, loc) ==
    LET shown(b) == IF b THEN "visible" ELSE "absent" IN
    CASE a.platform # "ios" -> "absent"
      [] loc = PROFILE_BUTTON -> IF a.screen = "main" THEN a.profile ELSE "absent"
      [] loc = LOGIN_BUTTON -> shown(a.screen = "profile" /\ ~a.loggedIn)
      [] loc = LOGIN_HEADER -> shown(a.screen = "login")
      [] loc \in {USERNAME_FIELD, PASSWORD_FIELD, REMEMBER_ME_CHECKBOX} ->
            shown(a.screen = "login")
         \* contains(@name, "Log in") also selects "Log in / Join Wikipedia"
      [] loc = LOGIN_SUBMIT_BUTTON ->
            shown(a.screen = "login" \/ (a.screen = "profile" /\ ~a.loggedIn))
      [] loc = LOGOUT_BUTTON ->
            shown((a.screen = "profile" /\ a.loggedIn) \/ a.screen = "confirm")
      [] loc \in {SAVE_PASSWORD_DIALOG, SAVE_PASSWORD_BUTTON, SAVE_PASSWORD_NOT_NOW} ->
            shown(a.screen # "terminated" /\ a.saveDlg)
      [] loc \in {READING_LIST_SYNC_DIALOG, READING_LIST_SYNC_BUTTON} ->
            shown(a.screen # "terminated" /\ a.syncDlg)
      [] loc \in {CAPTCHA_TEXT, CAPTCHA_CANCEL_BUTTON} ->
            shown(a.screen = "login" /\ a.captcha)
      [] loc = ERROR_XPATH -> shown(a.screen = "login" /\ a.error # "")
      [] OTHER -> "absent"

ElemEnabled(a, loc) ==
    IF loc = LOGIN_SUBMIT_BUTTON /\ a.screen = "login" THEN SubmitEnabled(a) ELSE TRUE

\* The error labels the selector of get_error_message finds (@value contains
\* "Incorrect", "error" or "invalid").
INCORRECT_MESSAGE == "Incorrect username or password"
OTHER_ERROR_MESSAGE == "An error occurred"

\* The text of the element: the message of the error label, the name otherwise.
ElemText(a, loc) == IF loc = ERROR_XPATH THEN a.error ELSE loc

\* get_attribute('value') of a field: its content, or its placeholder when empty.
FieldValue(a, loc) ==
    CASE loc = USERNAME_FIELD -> IF a.user = "" THEN USERNAME_PLACEHOLDER ELSE a.user
      [] loc = PASSWORD_FIELD -> IF a.pass = "" THEN PASSWORD_PLACEHOLDER ELSE a.pass
      [] OTHER -> None

\* The app accepts a submission of the valid credentials unless it answers
\* with an error (cfg.accept = FALSE: network failure, throttling).
Accepts(a) == a.user = VALID_USERNAME /\ a.pass = VALID_PASSWORD /\ cfg.accept

\* What a tap on the element does to the app.
AppClick(a, loc) ==
    CASE loc = PROFILE_BUTTON /\ a.screen = "main" -> [a EXCEPT !.screen = "profile"]
      [] (loc = LOGIN_BUTTON \/ loc = LOGIN_SUBMIT_BUTTON)
            /\ a.screen = "profile" /\ ~a.loggedIn ->
            [a EXCEPT !.screen = "login", !.error = "", !.user = "", !.pass = ""]
      [] loc = LOGIN_SUBMIT_BUTTON /\ a.screen = "login" /\ SubmitEnabled(a) ->
            IF Accepts(a)
            THEN [a EXCEPT !.screen = "main", !.loggedIn = TRUE, !.error = "",
                           !.profile = a.landing,
                           !.saveDlg = cfg.saveDlg, !.syncDlg = cfg.syncDlg,
                           !.user = "", !.pass = "", !.captcha = FALSE]
            ELSE [a EXCEPT !.error = IF a.user = VALID_USERNAME /\ a.pass = VALID_PASSWORD
                                     THEN OTHER_ERROR_MESSAGE ELSE INCORRECT_MESSAGE]
      [] loc = REMEMBER_ME_CHECKBOX /\ a.screen = "login" ->
            [a EXCEPT !.remember = ~@]
      [] loc = LOGOUT_BUTTON /\ a.screen = "profile" /\ a.loggedIn ->
            IF cfg.confirm THEN [a EXCEPT !.screen = "confirm"]
            ELSE [a EXCEPT !.loggedIn = FALSE]
      [] loc = LOGOUT_BUTTON /\ a.screen = "confirm" ->
            [a EXCEPT !.screen = "profile", !.loggedIn = FALSE]
      [] loc \in {SAVE_PASSWORD_BUTTON, SAVE_PASSWORD_NOT_NOW} /\ a.saveDlg ->
            [a EXCEPT !.saveDlg = FALSE]
      [] loc = READING_LIST_SYNC_BUTTON /\ a.syncDlg -> [a EXCEPT !.syncDlg = FALSE]
      [] loc = CAPTCHA_CANCEL_BUTTON /\ a.captcha -> [a EXCEPT !.captcha = FALSE]
      [] OTHER -> a

\* The app's answer to a tap, recorded in the history when it decides a login.
AppEvents(a, loc) ==
    IF loc = LOGIN_SUBMIT_BUTTON /\ a.screen = "login" /\ SubmitEnabled(a)
    THEN <<IF Accepts(a) THEN <<"app", "accepted">> ELSE <<"app", "rejected">>>>
    ELSE IF loc = LOGOUT_BUTTON /\ AppClick(a, loc).loggedIn # a.loggedIn
    THEN << <<"app", "logged_out">> >>
    ELSE << >>

----------------------------------------------------------------------------
(* Driver commands: each is sent over the session and fails with a         *)
(* WebDriverException (invalid session id) once the session was quit.      *)

Alive(m) == m.sess = "alive"

Cmd(m, kind, loc) == Event(m, <<"cmd", kind, loc>>)

\* A command on a live session returns F of the machine; on a session that
\* is not alive it raises.
Command(m0, kind, loc, F(_)) ==
    Strict(m0, LAMBDA m : IF Alive(m) THEN F(Cmd(m, kind, loc))
                          ELSE Raise(Cmd(m, kind, loc), WebDriverException))

\* driver.find_element(by, value)
FindElement(m, loc) ==
    Command(m, "find", loc,
            LAMBDA c : IF ElemState(c.app, loc) = "absent"
                       THEN Raise(c, NoSuchElementException)
                       ELSE Return(c, loc))

\* The expected conditions of selenium: presence, visibility, clickable.
Satisfied(a, loc, condition) ==
    CASE condition = "presence" -> ElemState(a, loc) # "absent"
      [] condition = "visible" -> ElemState(a, loc) = "visible"
      [] condition = "clickable" -> ElemState(a, loc) = "visible" /\ ElemEnabled(a, loc)

\* WebDriverWait(driver, timeout).until(condition(locator)): polls, ignoring
\* NoSuchElementException only, and raises TimeoutException at the timeout.
Until(m, loc, condition) ==
    Command(m, "find", loc,
            LAMBDA c : IF Satisfied(c.app, loc, condition) THEN Return(c, loc)
                       ELSE Raise(c, TimeoutException))

\* The tap submits the login form.
Submits(a, loc) == loc = LOGIN_SUBMIT_BUTTON /\ a.screen = "login" /\ SubmitEnabled(a)

\* element.click()
Click(m, loc) ==
    Command(m, "click", loc,
            LAMBDA c : IF loc = CAPTCHA_CANCEL_BUTTON /\ c.app.stuck
                       THEN Raise(c, WebDriverException)
                       ELSE
                       Return([c EXCEPT !.app = AppClick(c.app, loc),
                                        !.log = @ \o AppEvents(c.app, loc),
                                        !.sess = IF Submits(c.app, loc) /\ c.app.lost
                                                 THEN "lost" ELSE @], None))

\* element.is_displayed()
IsDisplayed(m, loc) ==
    Command(m, "is_displayed", loc,
            LAMBDA c : Return(c, PyBool(ElemState(c.app, loc) = "visible")))

\* element.is_enabled() / element.get_attribute('enabled')
IsEnabled(m, loc) ==
    Command(m, "is_enabled", loc, LAMBDA c : Return(c, PyBool(ElemEnabled(c.app, loc))))

\* element.text
Text(m, loc) == Command(m, "text", loc, LAMBDA c : Return(c, ElemText(c.app, loc)))

\* element.get_attribute('value')
GetValue(m, loc) ==
    Command(m, "get_attribute", loc, LAMBDA c : Return(c, FieldValue(c.app, loc)))

\* What a field takes of the keys sent to it: the text itself, the characters
\* of another keyboard layout (enter_password switches to the English
\* keyboard for that reason), or nothing.
OTHER_LAYOUT_TEXT == "text of another layout"

Typed(a, text) ==
    CASE a.keys = "exact" -> text
      [] a.keys = "other" -> OTHER_LAYOUT_TEXT
      [] a.keys = "none" -> ""

\* The app after the field's content became text.
SetField(a, loc, text) ==
    CASE loc = USERNAME_FIELD -> [a EXCEPT !.user = text]
      [] loc = PASSWORD_FIELD -> [a EXCEPT !.pass = text]
      [] OTHER -> a

\* element.clear()
Clear(m, loc) ==
    Command(m, "clear", loc,
            LAMBDA c : Return([c EXCEPT !.app = SetField(c.app, loc, "")], None))

\* element.send_keys(text)
SendKeys(m, loc, text) ==
    Command(m, "send_keys", loc,
            LAMBDA c : Return([c EXCEPT !.app = SetField(c.app, loc, Typed(c.app, text))],
                              None))

\* driver.page_source
PageSource(m) == Command(m, "page_source", None, LAMBDA c : Return(c, None))

\* driver.save_screenshot(name) / driver.get_screenshot_as_file(name)
Screenshot(m) == Command(m, "screenshot", None, LAMBDA c : Return(c, "True"))

\* driver.execute_script("mobile: scroll", {"direction": "up"})
Scroll(m) == Command(m, "scroll", None, LAMBDA c : Return(c, None))

\* driver.activate_app('org.wikimedia.wikipedia')
ActivateApp(m) == Command(m, "activate_app", None, LAMBDA c : Return(c, None))

\* driver.quit() of the remote session
SessionQuit(m) ==
    Command(m, "quit", None, LAMBDA c : Return([c EXCEPT !.sess = "quit"], None))

----------------------------------------------------------------------------
(* Sequencing, exception handling, and the call/return records *)

\* Run F after r unless r raised.
Then(r, F(_)) == Strict(r, LAMBDA x : IF Raised(x) THEN x ELSE F(x))

\* except ...: H, for the exceptions in excs
Except(r, excs, H(_)) == Strict(r, LAMBDA x : IF x.exc \in excs THEN H(x) ELSE x)

\* except Exception / bare except: H
Catch(r, H(_)) == Strict(r, LAMBDA x : IF Raised(x) THEN H(x) ELSE x)

\* Run F after r if r returned a truthy value; r otherwise.
IfTruthy(r, F(_)) ==
    Strict(r, LAMBDA x : IF Raised(x) \/ ~Truthy(x.ret) THEN x ELSE F(x))

\* except Exception: log and go on
Swallow(r) == Catch(r, LAMBDA x : Return(x, None))

\* raise e after the handler body ran to p (an exception of the body wins)
Reraise(p, e) == Then(p, LAMBDA x : Raise(x, e))

Enter(m, name) == Event(m, <<"call", name>>)

Done(name, r) ==
    Strict(r, LAMBDA x : Event(x, IF Raised(x) THEN <<"raise", name, x.exc>>
                                  ELSE <<"return", name, x.ret>>))

----------------------------------------------------------------------------
(* pages/base_page.py *)

\* _wait_for_element, were the TimeoutException logged and None returned.
WaitForElementSwallowing(m, loc, condition) ==
    Except(Until(m, loc, condition), {TimeoutException}, LAMBDA x : Return(x, None))

\* BasePage._wait_for_element: the TimeoutException is logged, with the page
\* source read for the debug record, and raised again; any other exception
\* passes through.
WaitForElement(m, loc, condition) ==
    Except(Until(m, loc, condition), {TimeoutException},
           LAMBDA x : Reraise(PageSource(x), TimeoutException))

WaitForClickable(m, loc) == Call("WaitForElement", m, <<loc, "clickable">>)

WaitForVisible(m, loc) == Call("WaitForElement", m, <<loc, "visible">>)

SafeClick(m, loc) == Then(Call("WaitForClickable", m, <<loc>>), LAMBDA x : Click(x, loc))

\* A helper without the except clause: the exception passes to the caller.
SentinelMissing(r, value) == r

\* except (TimeoutException, NoSuchElementException): return <sentinel>
Sentinel(r, value) ==
    Except(r, {TimeoutException, NoSuchElementException}, LAMBDA x : Return(x, value))

IsElementPresent(m, loc) ==
    Sentinel(Then(Call("WaitForElement", m, <<loc, "presence">>),
                  LAMBDA x : Return(x, "True")), "False")

IsElementVisible(m, loc) ==
    Sentinel(Then(Call("WaitForVisible", m, <<loc>>), LAMBDA x : IsDisplayed(x, loc)), "False")

GetElementText(m, loc) ==
    Sentinel(Then(Call("WaitForVisible", m, <<loc>>), LAMBDA x : Text(x, loc)), None)

GetElementAttribute(m, loc) ==
    Sentinel(Then(Call("WaitForElement", m, <<loc, "presence">>),
                  LAMBDA x : GetValue(x, loc)), None)

----------------------------------------------------------------------------
(* pages/handlers/ *)

\* BaseHandler._wait_for_visible / _wait_for_clickable: a timeout is logged
\* and None is returned; any other exception passes through.
HandlerWait(m, loc, condition) ==
    Except(Until(m, loc, condition), {TimeoutException}, LAMBDA x : Return(x, None))

HandlerWaitForVisible(m, loc) == Call("HandlerWait", m, <<loc, "visible">>)

HandlerWaitForClickable(m, loc) == Call("HandlerWait", m, <<loc, "clickable">>)

\* DialogHandler._handle_additional_dialog: AuthPageLocators defines no
\* DIALOG_CLOSE_BUTTON, so reading it raises AttributeError inside the try,
\* before any driver command; the except clause logs it.
HandleAdditionalDialog(m) ==
    Done("_handle_additional_dialog",
         Swallow(Raise(Enter(m, "_handle_additional_dialog"), AttributeError)))

\* The body of the dialog handlers, were the alert not waited for.
HandleDialogBlind(m, dialog, button) ==
    IfTruthy(Call("HandlerWaitForClickable", m, <<button>>), LAMBDA b :
    Then(Click(b, button), LAMBDA x : Call("HandleAdditionalDialog", x, << >>)))

\* The body shared by handle_save_password_dialog and handle_reading_list_sync.
HandleDialog(m, dialog, button) ==
    IfTruthy(Call("HandlerWaitForVisible", m, <<dialog>>), LAMBDA d :
    IfTruthy(IsDisplayed(d, dialog), LAMBDA s :
    IfTruthy(Call("HandlerWaitForClickable", s, <<button>>), LAMBDA b :
    Then(Click(b, button), LAMBDA x : Call("HandleAdditionalDialog", x, << >>)))))

\* handle_save_password_dialog, were its except clauses missing.
HandleSavePasswordDialogRaising(m) ==
    Done("handle_save_password_dialog",
         Then(Call("HandleDialog", Enter(m, "handle_save_password_dialog"),
                   <<SAVE_PASSWORD_DIALOG, SAVE_PASSWORD_BUTTON>>),
              LAMBDA x : Return(x, None)))

\* DialogHandler.handle_save_password_dialog
HandleSavePasswordDialog(m) ==
    Done("handle_save_password_dialog",
         Then(Swallow(Call("HandleDialog", Enter(m, "handle_save_password_dialog"),
                           <<SAVE_PASSWORD_DIALOG, SAVE_PASSWORD_BUTTON>>)),
              LAMBDA x : Return(x, None)))

\* DialogHandler.handle_reading_list_sync
HandleReadingListSync(m) ==
    Done("handle_reading_list_sync",
         Then(Swallow(Call("HandleDialog", Enter(m, "handle_reading_list_sync"),
                           <<READING_LIST_SYNC_DIALOG, READING_LIST_SYNC_BUTTON>>)),
              LAMBDA x : Return(x, None)))

\* KeyboardHandler.switch_to_english_keyboard: no exception leaves it.
SwitchToEnglishKeyboard(m) ==
    Then(Swallow(
            IfTruthy(Call("HandlerWaitForVisible", m, <<NEXT_KEYBOARD_BUTTON>>), LAMBDA k :
            IfTruthy(IsDisplayed(k, NEXT_KEYBOARD_BUTTON), LAMBDA s :
            Then(GetValue(s, NEXT_KEYBOARD_BUTTON), LAMBDA v :
                 IF v.ret = "English (US)"
                 THEN Then(Click(v, NEXT_KEYBOARD_BUTTON), LAMBDA y : Return(y, "True"))
                 ELSE Return(v, "False"))))),
         LAMBDA x : Return(x, PyBool(x.ret = "True")))

----------------------------------------------------------------------------
(* pages/auth_page.py *)

\* except Exception as e: log it, log driver.page_source, raise
LogSourceAndReraise(r) == Catch(r, LAMBDA x : Reraise(PageSource(x), x.exc))

\* AuthPage.is_logged_in: the profile button is visible; a bare except turns
\* every failure into False.
IsLoggedIn(m) ==
    Done("is_logged_in",
         Catch(Then(Call("WaitForVisible", Enter(m, "is_logged_in"), <<PROFILE_BUTTON>>),
                    LAMBDA x : IsDisplayed(x, PROFILE_BUTTON)),
               LAMBDA x : Return(x, "False")))

\* AuthPage.is_on_login_page
IsOnLoginPage(m) ==
    Done("is_on_login_page",
         Sentinel(Then(Call("WaitForVisible", Enter(m, "is_on_login_page"), <<LOGIN_HEADER>>),
                       LAMBDA x : IsDisplayed(x, LOGIN_HEADER)), "False"))

\* get_error_message, were the text of the found element not read.
GetErrorMessageBlind(m) ==
    Done("get_error_message",
         Catch(Then(Call("WaitForElement", Enter(m, "get_error_message"),
                         <<ERROR_XPATH, "presence">>),
                    LAMBDA x : Return(x, None)),
               LAMBDA x : Then(PageSource(x), LAMBDA y : Return(y, None))))

\* AuthPage.get_error_message: both except clauses log the page source and
\* return None.
GetErrorMessage(m) ==
    Done("get_error_message",
         Catch(Then(Call("WaitForElement", Enter(m, "get_error_message"),
                         <<ERROR_XPATH, "presence">>),
                    LAMBDA x : IF Truthy(x.ret) THEN Text(x, ERROR_XPATH)
                               ELSE Return(x, None)),
               LAMBDA x : Then(PageSource(x), LAMBDA y : Return(y, None))))

\* wait for the button to be visible; scroll and wait again if it is not displayed
VisibleOrScroll(m, loc) ==
    Then(Then(Call("WaitForVisible", m, <<loc>>), LAMBDA x : IsDisplayed(x, loc)),
         LAMBDA d : IF Truthy(d.ret) THEN d
                    ELSE Then(Scroll(d), LAMBDA x : Call("WaitForVisible", x, <<loc>>)))

\* navigate_to_login, were the answer of is_on_login_page not looked at.
NavigateToLoginAlways(m) ==
    Done("navigate_to_login",
         Then(Call("IsOnLoginPage", Enter(m, "navigate_to_login"), << >>), LAMBDA on :
              LET p1 == Call("VisibleOrScroll", on, <<PROFILE_BUTTON>>)
                  p2 == Then(p1, LAMBDA x : Call("SafeClick", x, <<PROFILE_BUTTON>>))
                  b1 == Then(p2, LAMBDA x : Call("VisibleOrScroll", x, <<LOGIN_BUTTON>>))
                  b2 == Then(b1, LAMBDA x : Call("SafeClick", x, <<LOGIN_BUTTON>>))
              IN Then(LogSourceAndReraise(b2), LAMBDA x : Return(x, None))))

\* AuthPage.navigate_to_login
NavigateToLogin(m) ==
    Done("navigate_to_login",
         Then(Call("IsOnLoginPage", Enter(m, "navigate_to_login"), << >>), LAMBDA on :
              IF on.ret = "True" THEN Return(on, None)
              ELSE LET p1 == Call("VisibleOrScroll", on, <<PROFILE_BUTTON>>)
                       p2 == Then(p1, LAMBDA x : Call("SafeClick", x, <<PROFILE_BUTTON>>))
                       b1 == Then(p2, LAMBDA x : Call("VisibleOrScroll", x, <<LOGIN_BUTTON>>))
                       b2 == Then(b1, LAMBDA x : Call("SafeClick", x, <<LOGIN_BUTTON>>))
                   IN Then(LogSourceAndReraise(b2), LAMBDA x : Return(x, None))))

\* AuthPage.enter_username
EnterUsername(m, username) ==
    LET f  == Call("WaitForClickable", Enter(m, "enter_username"), <<USERNAME_FIELD>>)
        c1 == Then(f, LAMBDA x : IF Truthy(x.ret) THEN Clear(x, USERNAME_FIELD)
                                 ELSE Raise(x, PlainException))
        c2 == Then(c1, LAMBDA x : Click(x, USERNAME_FIELD))
        c3 == Then(c2, LAMBDA x : SendKeys(x, USERNAME_FIELD, username))
        c4 == Then(c3, LAMBDA x : GetValue(x, USERNAME_FIELD))
        c5 == Then(c4, LAMBDA x : IF Truthy(x.ret) THEN Return(x, "True")
                                  ELSE Raise(x, PlainException))
    IN Done("enter_username", LogSourceAndReraise(c5))

\* AuthPage.enter_password
EnterPassword(m, password) ==
    LET f  == Call("WaitForClickable", Enter(m, "enter_password"), <<PASSWORD_FIELD>>)
        c1 == Then(f, LAMBDA x : IF Truthy(x.ret) THEN Clear(x, PASSWORD_FIELD)
                                 ELSE Raise(x, PlainException))
        c2 == Then(c1, LAMBDA x : Click(x, PASSWORD_FIELD))
        k  == Then(c2, LAMBDA x : Call("SwitchToEnglishKeyboard", x, << >>))
        c3 == Then(k, LAMBDA x : SendKeys(x, PASSWORD_FIELD, password))
        c4 == Then(c3, LAMBDA x : GetValue(x, PASSWORD_FIELD))
        c5 == Then(c4, LAMBDA x : IF x.ret = PASSWORD_PLACEHOLDER \/ ~Truthy(x.ret)
                                  THEN Raise(x, PlainException)
                                  ELSE Return(x, "True"))
    IN Done("enter_password", LogSourceAndReraise(c5))

\* AuthPage.toggle_remember_me
ToggleRememberMe(m) ==
    Done("toggle_remember_me",
         Then(Call("WaitForClickable", Enter(m, "toggle_remember_me"), <<REMEMBER_ME_CHECKBOX>>),
              LAMBDA x : Click(x, REMEMBER_ME_CHECKBOX)))

\* AuthPage.click_login
ClickLogin(m) ==
    LET b == Call("WaitForClickable", Enter(m, "click_login"), <<LOGIN_SUBMIT_BUTTON>>)
        c == Then(b, LAMBDA x : IF Truthy(x.ret) THEN Click(x, LOGIN_SUBMIT_BUTTON)
                                ELSE Raise(x, PlainException))
    IN Done("click_login", LogSourceAndReraise(c))

\* for attempt in range(3) of AuthPage.login
VerifyAttempts == 3

\* The verification loop of login with k attempts left; after the last one
\* the page source is logged and False returned.
RECURSIVE VerifyLogin(_, _)
VerifyLogin(m, k) ==
    IF k = 0 THEN Then(PageSource(m), LAMBDA x : Return(x, "False"))
    ELSE Then(Call("IsLoggedIn", m, << >>), LAMBDA l :
              IF Truthy(l.ret) THEN Return(l, "True")
              ELSE Then(Call("WaitForElement", l, <<PROFILE_BUTTON, "presence">>),
                        LAMBDA x : Call("VerifyLogin", x, <<k - 1>>)))

\* The second try block of login: the dialogs and the verification, whose
\* failures are logged with the page source and become False.
PostLoginChecks(m) ==
    LET d1 == Call("HandleSavePasswordDialog", m, << >>)
        d2 == Then(d1, LAMBDA x : Call("HandleReadingListSync", x, << >>))
        v  == Then(d2, LAMBDA x : Call("VerifyLogin", x, <<VerifyAttempts>>))
    IN Catch(v, LAMBDA x : Then(PageSource(x), LAMBDA y : Return(y, "False")))

\* The part of login after the click, were a found error message taken for a
\* success.
AfterClickTrusting(m) ==
    Strict(Call("GetErrorMessage", m, << >>), LAMBDA em :
           IF ~Raised(em) /\ Truthy(em.ret) THEN Return(em, "True")
           ELSE Call("PostLoginChecks", Swallow(em), << >>))

\* The part of login after the click: a found error message ends it with
\* False; a failure of the lookup is logged and passed over.
AfterClick(m) ==
    Strict(Call("GetErrorMessage", m, << >>), LAMBDA em :
           IF ~Raised(em) /\ Truthy(em.ret) THEN Return(em, "False")
           ELSE Call("PostLoginChecks", Swallow(em), << >>))

\* login, were the remember-me checkbox toggled whatever remember_me is.
LoginToggling(m, username, password, remember_me) ==
    LET n  == Call("NavigateToLogin", Enter(m, "login"), << >>)
        u  == Then(n, LAMBDA x : Call("EnterUsername", x, <<username>>))
        pw == Then(u, LAMBDA x : Call("EnterPassword", x, <<password>>))
        t  == Then(pw, LAMBDA x : Call("ToggleRememberMe", x, << >>))
        c  == Then(t, LAMBDA x : Call("ClickLogin", x, << >>))
    IN Done("login", LogSourceAndReraise(Then(c, LAMBDA x : Call("AfterClick", x, << >>))))

\* AuthPage.login
Login(m, username, password, remember_me) ==
    LET n  == Call("NavigateToLogin", Enter(m, "login"), << >>)
        u  == Then(n, LAMBDA x : Call("EnterUsername", x, <<username>>))
        pw == Then(u, LAMBDA x : Call("EnterPassword", x, <<password>>))
        t  == Then(pw, LAMBDA x : IF remember_me THEN Call("ToggleRememberMe", x, << >>) ELSE x)
        c  == Then(t, LAMBDA x : Call("ClickLogin", x, << >>))
    IN Done("login", LogSourceAndReraise(Then(c, LAMBDA x : Call("AfterClick", x, << >>))))

\* The confirmation of logout, were its TimeoutException not passed over.
ConfirmLogoutRequired(m) ==
    LET d == Then(Call("WaitForVisible", m, <<CONFIRM_LOGOUT_BUTTON>>),
                  LAMBDA x : IsDisplayed(x, CONFIRM_LOGOUT_BUTTON))
    IN Then(d, LAMBDA x : IF Truthy(x.ret)
                          THEN Call("SafeClick", x, <<CONFIRM_LOGOUT_BUTTON>>)
                          ELSE x)

\* The optional confirmation of logout: only a TimeoutException is passed over.
ConfirmLogout(m) ==
    LET d == Then(Call("WaitForVisible", m, <<CONFIRM_LOGOUT_BUTTON>>),
                  LAMBDA x : IsDisplayed(x, CONFIRM_LOGOUT_BUTTON))
        c == Then(d, LAMBDA x : IF Truthy(x.ret)
                                THEN Call("SafeClick", x, <<CONFIRM_LOGOUT_BUTTON>>)
                                ELSE x)
    IN Except(c, {TimeoutException}, LAMBDA x : Return(x, None))

\* The verification of logout: True when the "Log in / Join Wikipedia" button
\* is displayed, an Exception when waiting for it timed out.
VerifyLogout(m) ==
    LET d == Then(Call("WaitForVisible", m, <<LOGIN_BUTTON>>),
                  LAMBDA x : IsDisplayed(x, LOGIN_BUTTON))
        r == Then(d, LAMBDA x : IF Truthy(x.ret) THEN Return(x, "True") ELSE Return(x, None))
    IN Except(r, {TimeoutException}, LAMBDA x : Raise(x, PlainException))

\* logout, were the "Log in / Join Wikipedia" button not waited for.
LogoutUnverified(m) ==
    LET p1 == Call("VisibleOrScroll", Enter(m, "logout"), <<PROFILE_BUTTON>>)
        p2 == Then(p1, LAMBDA x : Call("SafeClick", x, <<PROFILE_BUTTON>>))
        b1 == Then(p2, LAMBDA x : Call("VisibleOrScroll", x, <<LOGOUT_BUTTON>>))
        b2 == Then(b1, LAMBDA x : Call("SafeClick", x, <<LOGOUT_BUTTON>>))
        c  == Then(b2, LAMBDA x : Call("ConfirmLogout", x, << >>))
        v  == Then(c, LAMBDA x : Return(x, "True"))
    IN Done("logout",
            Catch(v, LAMBDA x : Reraise(Then(Screenshot(x), LAMBDA y : PageSource(y)),
                                        x.exc)))

\* AuthPage.logout
Logout(m) ==
    LET p1 == Call("VisibleOrScroll", Enter(m, "logout"), <<PROFILE_BUTTON>>)
        p2 == Then(p1, LAMBDA x : Call("SafeClick", x, <<PROFILE_BUTTON>>))
        b1 == Then(p2, LAMBDA x : Call("VisibleOrScroll", x, <<LOGOUT_BUTTON>>))
        b2 == Then(b1, LAMBDA x : Call("SafeClick", x, <<LOGOUT_BUTTON>>))
        c  == Then(b2, LAMBDA x : Call("ConfirmLogout", x, << >>))
        v  == Then(c, LAMBDA x : Call("VerifyLogout", x, << >>))
    IN Done("logout",
            Catch(v, LAMBDA x : Reraise(Then(Screenshot(x), LAMBDA y : PageSource(y)),
                                        x.exc)))

\* AuthPage.is_login_button_disabled
IsLoginButtonDisabled(m) ==
    Done("is_login_button_disabled",
         Catch(Then(Call("WaitForVisible", Enter(m, "is_login_button_disabled"),
                         <<LOGIN_SUBMIT_BUTTON>>), LAMBDA b :
                    IF ~Truthy(b.ret) THEN Return(b, "False")
                    ELSE Then(IsEnabled(b, LOGIN_SUBMIT_BUTTON), LAMBDA e :
                         Then(IsDisplayed(e, LOGIN_SUBMIT_BUTTON), LAMBDA d :
                         Then(IF Truthy(d.ret) THEN IsEnabled(d, LOGIN_SUBMIT_BUTTON) ELSE d,
                              LAMBDA c : Return(c, PyBool(~(Truthy(e.ret) /\ Truthy(c.ret)))))))),
               LAMBDA x : Return(x, "False")))

----------------------------------------------------------------------------
(* Field clearing statistics (AuthPage and FieldHandler).                  *)
(* A page is the list of fields of each element type; failing is the set   *)
(* of fields whose clear() raises; findRaises tells that                   *)
(* driver.find_elements raises.                                            *)

ZeroStats == [fields_found |-> 0, fields_cleared |-> 0, fields_failed |-> 0]

\* The count of a field, were a failed clear() not counted.
CountFieldForgetful(stats, cleared) ==
    IF cleared THEN [stats EXCEPT !.fields_cleared = @ + 1] ELSE stats

\* try: field.clear(); stats['fields_cleared'] += 1
\* except Exception: stats['fields_failed'] += 1
CountField(stats, cleared) ==
    IF cleared THEN [stats EXCEPT !.fields_cleared = @ + 1]
    ELSE [stats EXCEPT !.fields_failed = @ + 1]

\* for field in fields: ...
RECURSIVE ClearEach(_, _, _)
ClearEach(fields, failing, stats) ==
    IF fields = << >> THEN stats
    ELSE ClearEach(Tail(fields), failing, CountField(stats, Head(fields) \notin failing))

\* AuthPage._find_all_input_fields: text fields then secure fields, [] when
\* finding raises.
AuthFindAllInputFields(page, findRaises) ==
    IF findRaises THEN << >> ELSE page.text \o page.secure

\* AuthPage.clear_all_possible_inputs
AuthClearAllPossibleInputs(page, findRaises, failing) ==
    LET input_fields == AuthFindAllInputFields(page, findRaises) IN
    ClearEach(input_fields, failing, [ZeroStats EXCEPT !.fields_found = Len(input_fields)])

\* FieldHandler._find_all_input_fields: four element types, exceptions pass.
HandlerFindAllInputFields(page) == page.text \o page.secure \o page.view \o page.search

\* FieldHandler.clear_all_possible_inputs: when finding raises, the except
\* clause leaves stats as initialised.
HandlerClearAllPossibleInputs(page, findRaises, failing) ==
    IF findRaises THEN ZeroStats
    ELSE LET fields == HandlerFindAllInputFields(page) IN
         ClearEach(fields, failing, [ZeroStats EXCEPT !.fields_found = Len(fields)])

\* The input fields of the app's screen, by element type.
AppPage(a) ==
    IF a.platform = "ios" /\ a.screen = "login"
    THEN [text |-> <<USERNAME_FIELD>>, secure |-> <<PASSWORD_FIELD>>,
          view |-> << >>, search |-> << >>]
    ELSE [text |-> << >>, secure |-> << >>, view |-> << >>, search |-> << >>]

RECURSIVE ClearFields(_, _)
ClearFields(m, fields) ==
    IF fields = << >> THEN m
    ELSE Strict(Swallow(Clear(m, Head(fields))),
                LAMBDA x : Call("ClearFields", x, <<Tail(fields)>>))

\* AuthPage.clear_all_possible_inputs on the app: the fields are found (two
\* find_elements commands, the second only if the first did not raise) and
\* cleared, and the statistics recorded in the history.
ClearAllPossibleInputs(m) ==
    LET t == Cmd(Enter(m, "clear_all_possible_inputs"), "find_elements", "TextField")
        e == IF Alive(m) THEN Cmd(t, "find_elements", "SecureTextField") ELSE t
        fields == AuthFindAllInputFields(AppPage(m.app), ~Alive(m))
        stats == AuthClearAllPossibleInputs(AppPage(m.app), ~Alive(m), {})
    IN Done("clear_all_possible_inputs",
            Strict(Call("ClearFields", e, <<fields>>), LAMBDA c :
                   Return(Event(c, <<"stats", stats.fields_found, stats.fields_cleared,
                                    stats.fields_failed>>), None)))

----------------------------------------------------------------------------
(* utils/driver.py: class Driver.  d is the object's driver attribute,     *)
(* "None" or "set" (a WebDriver object is truthy also after its session    *)
(* was quit).                                                              *)

\* init_driver as it would be under @retry_on_failure(max_attempts=3): a failed
\* opening is tried three times.
InitDriverRetried(m, platform, opened) ==
    LET e == Event(Enter(m, "init_driver"), <<"remote", platform>>) IN
    Done("init_driver",
         IF opened THEN Return([e EXCEPT !.sess = "alive"], "driver")
         ELSE Raise(Event(Event(e, <<"remote", platform>>), <<"remote", platform>>),
                    WebDriverException))

\* Driver.init_driver: one webdriver.Remote(...) call inside try/except/raise;
\* opened tells whether the Appium server opens the session.
InitDriver(m, platform, opened) ==
    LET e == Event(Enter(m, "init_driver"), <<"remote", platform>>) IN
    Done("init_driver",
         IF opened THEN Return([e EXCEPT !.sess = "alive"], "driver")
         ELSE Raise(e, WebDriverException))

\* Driver.quit, were self.driver not looked at before the session is quit.
DriverQuitUnguarded(m, d) ==
    Done("Driver.quit",
         Then(Swallow(SessionQuit(Enter(m, "Driver.quit"))), LAMBDA x : Return(x, None)))

\* Driver.quit: if self.driver: try: self.driver.quit() except: log
\* finally: self.driver = None
DriverQuit(m, d) ==
    Done("Driver.quit",
         IF d = "set"
         THEN Then(Swallow(SessionQuit(Enter(m, "Driver.quit"))), LAMBDA x : Return(x, None))
         ELSE Return(Enter(m, "Driver.quit"), None))

\* os.system('xcrun simctl ...') on the iOS simulator: never raises
Simctl(m, what) ==
    LET e == Event(m, <<"simctl", what>>) IN
    CASE what = "launch" /\ m.app.platform = "ios" /\ m.app.screen = "terminated" ->
            [e EXCEPT !.app = AppState("ios", "main", m.app.loggedIn, FALSE)]
      [] what = "terminate" /\ m.app.platform = "ios" ->
            [e EXCEPT !.app = AppState("ios", "terminated", m.app.loggedIn, FALSE)]
      [] OTHER -> e

\* Driver.before_test; wdaOk is the answer of check_wda_status.
BeforeTest(m, platform, d, opened, wdaOk) ==
    LET e == Enter(m, "Driver.before_test") IN
    Done("Driver.before_test",
         IF platform = "ios"
         THEN LET b == Simctl(e, "boot")
                  i == IF d = "None" THEN Call("InitDriver", b, <<platform, opened>>) ELSE b
                  w == Then(i, LAMBDA x : IF wdaOk THEN x ELSE Raise(x, PlainException))
              IN Then(w, LAMBDA x : Return(Simctl(x, "launch"), None))
         ELSE LET i == IF d = "None" THEN Call("InitDriver", e, <<platform, opened>>) ELSE e
              IN Then(i, LAMBDA x : ActivateApp(x)))

\* Driver.setUp
SetUp(m, platform, d, opened, wdaOk) ==
    LET i == IF d = "None" THEN Call("InitDriver", m, <<platform, opened>>) ELSE m IN
    Then(i, LAMBDA x : Call("BeforeTest", x, <<platform, "set", opened, wdaOk>>))

\* The Cancel lookup of after_test: only NoSuchElementException is passed over.
ClickCancel(m) ==
    LET c == FindElement(m, CAPTCHA_CANCEL_BUTTON)
        s == Then(c, LAMBDA x : IsDisplayed(x, CAPTCHA_CANCEL_BUTTON))
        k == Then(s, LAMBDA x : IF Truthy(x.ret) THEN Click(x, CAPTCHA_CANCEL_BUTTON) ELSE x)
    IN Except(k, {NoSuchElementException}, LAMBDA x : Return(x, None))

\* self.driver after Driver.quit returned: the finally clause sets it to None
\* when it was set; it was None already otherwise.
DriverAfterQuit(d) == IF d = "set" THEN "None" ELSE d

\* Driver.after_test.  With self.driver None the Cancel lookup fails on the
\* attribute, before any command is sent.
AfterTest(m, platform, d) ==
    LET e == Enter(m, "Driver.after_test")
        t == IF platform = "ios"
             THEN Then(IF d = "None" THEN Raise(e, AttributeError)
                       ELSE Call("ClickCancel", e, << >>),
                       LAMBDA x : Simctl(x, "terminate"))
             ELSE e
        q == Then(t, LAMBDA x : Call("DriverQuit", x, <<d>>))
    IN Done("Driver.after_test", Catch(q, LAMBDA x : Call("DriverQuit", Swallow(x), <<d>>)))

----------------------------------------------------------------------------
(* tests/test_auth.py: class TestAuthentication *)

Tests == {"test_successful_login", "test_invalid_password", "test_invalid_username",
          "test_empty_credentials", "test_remember_me"}

\* assert condition
AssertThat(m, condition) == IF condition THEN m ELSE Raise(m, AssertionError)

\* "incorrect" in message.lower()
MentionsIncorrect(message) == message = INCORRECT_MESSAGE

\* TestAuthentication.before_test: a Driver(platform="ios") around self.driver
TestBeforeTest(m, wdaOk) ==
    Done("before_test", Call("SetUp", Enter(m, "before_test"), <<"ios", "set", TRUE, wdaOk>>))

\* TestAuthentication.after_test: a Driver(platform="ios") around self.driver
TestAfterTest(m) ==
    Done("after_test", Call("AfterTest", Enter(m, "after_test"), <<"ios", "set">>))

\* except Exception: log, driver.save_screenshot(...), raise
ScreenshotAndReraise(r) == Catch(r, LAMBDA x : Reraise(Screenshot(x), x.exc))

\* try: find the CAPTCHA text and, if displayed, click its displayed Cancel
\* button; bare except
DismissCaptcha(m) ==
    Swallow(IfTruthy(Then(FindElement(m, CAPTCHA_TEXT),
                          LAMBDA x : IsDisplayed(x, CAPTCHA_TEXT)), LAMBDA t :
            IfTruthy(Then(FindElement(t, CAPTCHA_CANCEL_BUTTON),
                          LAMBDA x : IsDisplayed(x, CAPTCHA_CANCEL_BUTTON)), LAMBDA b :
            Click(b, CAPTCHA_CANCEL_BUTTON))))

\* try: find the Save Password dialog and, if displayed, click Not Now; bare
\* except
DismissSavePassword(m) ==
    Swallow(IfTruthy(Then(FindElement(m, SAVE_PASSWORD_DIALOG),
                          LAMBDA x : IsDisplayed(x, SAVE_PASSWORD_DIALOG)), LAMBDA d :
            Then(FindElement(d, SAVE_PASSWORD_NOT_NOW),
                 LAMBDA x : Click(x, SAVE_PASSWORD_NOT_NOW))))

\* The start of test_empty_credentials and test_remember_me: dismiss the
\* dialogs, go to the login page if not on it, clear the fields.
Preamble(m) ==
    LET d  == Then(Call("DismissCaptcha", m, << >>),
                   LAMBDA x : Call("DismissSavePassword", x, << >>))
        on == Then(d, LAMBDA x : Call("IsOnLoginPage", x, << >>))
        n  == Then(on, LAMBDA x : IF x.ret = "True" THEN x ELSE Call("NavigateToLogin", x, << >>))
    IN Then(n, LAMBDA x : Call("ClearAllPossibleInputs", x, << >>))

TestSuccessfulLogin(m) ==
    LET l == Call("Login", m, <<VALID_USERNAME, VALID_PASSWORD, FALSE>>)
        s == Then(l, LAMBDA x : Screenshot(x))
        v == Then(s, LAMBDA x : Call("IsLoggedIn", x, << >>))
    IN Then(v, LAMBDA x : AssertThat(x, Truthy(x.ret)))

\* The checks after a rejected login: an error message that mentions
\* "incorrect", and still on the login page.
ExpectRejection(m) ==
    LET e == Call("GetErrorMessage", m, << >>)
        a == Then(e, LAMBDA x : AssertThat(x, x.ret # None /\ MentionsIncorrect(x.ret)))
        o == Then(a, LAMBDA x : Call("IsOnLoginPage", x, << >>))
    IN Then(o, LAMBDA x : AssertThat(x, Truthy(x.ret)))

TestInvalidPassword(m) ==
    LET l == Call("Login", m, <<VALID_USERNAME, INVALID_PASSWORD, FALSE>>)
        r == Then(l, LAMBDA x : Call("ExpectRejection", x, << >>))
    IN Then(r, LAMBDA x : Screenshot(x))

TestInvalidUsername(m) ==
    LET c == Call("ClearAllPossibleInputs", m, << >>)
        u == Then(c, LAMBDA x : Call("EnterUsername", x, <<"invalid_user">>))
        p == Then(u, LAMBDA x : Call("EnterPassword", x, <<VALID_PASSWORD>>))
        k == Then(p, LAMBDA x : Call("ClickLogin", x, << >>))
        r == Then(k, LAMBDA x : Call("ExpectRejection", x, << >>))
    IN ScreenshotAndReraise(r)

\* try: ... except: screenshot, raise; finally: self.after_test()
TestEmptyCredentials(m) ==
    LET b == Then(Call("Preamble", m, << >>), LAMBDA x : Call("IsLoginButtonDisabled", x, << >>))
        a == Then(b, LAMBDA x : AssertThat(x, Truthy(x.ret)))
    IN Strict(ScreenshotAndReraise(Then(a, LAMBDA x : Screenshot(x))), LAMBDA s :
              Then(Call("TestAfterTest", Swallow(s), << >>),
                   LAMBDA f : IF Raised(s) THEN Raise(f, s.exc) ELSE f))

TestRememberMe(m) ==
    LET l == Then(Call("Preamble", m, << >>),
                  LAMBDA x : Call("Login", x, <<VALID_USERNAME, VALID_PASSWORD, TRUE>>))
        a == Then(l, LAMBDA x : AssertThat(x, x.ret = "True"))
    IN ScreenshotAndReraise(Then(a, LAMBDA x : Screenshot(x)))

\* The teardown half of the fixture, were its try block without the except.
SetupTeardownUncaught(m) ==
    Done("setup.teardown",
         Then(Then(Call("IsOnLoginPage", Enter(m, "setup.teardown"), << >>), LAMBDA on :
                   IF on.ret = "True" THEN on
                   ELSE Then(Call("IsLoggedIn", on, << >>), LAMBDA li :
                             IF li.ret = "True" THEN Call("Logout", li, << >>) ELSE li)),
              LAMBDA x : Return(x, None)))

\* The teardown half of the autouse fixture TestAuthentication.setup.
SetupTeardown(m) ==
    Done("setup.teardown",
         Then(Swallow(Then(Call("IsOnLoginPage", Enter(m, "setup.teardown"), << >>), LAMBDA on :
                           IF on.ret = "True" THEN on
                           ELSE Then(Call("IsLoggedIn", on, << >>), LAMBDA li :
                                     IF li.ret = "True" THEN Call("Logout", li, << >>) ELSE li))),
              LAMBDA x : Return(x, None)))

\* The functions by name.
Call(name, m, a) ==
    CASE name = "WaitForElement" -> WaitForElement(m, a[1], a[2])
      [] name = "WaitForClickable" -> WaitForClickable(m, a[1])
      [] name = "WaitForVisible" -> WaitForVisible(m, a[1])
      [] name = "SafeClick" -> SafeClick(m, a[1])
      [] name = "IsElementPresent" -> IsElementPresent(m, a[1])
      [] name = "IsElementVisible" -> IsElementVisible(m, a[1])
      [] name = "GetElementText" -> GetElementText(m, a[1])
      [] name = "GetElementAttribute" -> GetElementAttribute(m, a[1])
      [] name = "HandlerWaitForVisible" -> HandlerWaitForVisible(m, a[1])
      [] name = "HandlerWaitForClickable" -> HandlerWaitForClickable(m, a[1])
      [] name = "HandlerWait" -> HandlerWait(m, a[1], a[2])
      [] name = "HandleAdditionalDialog" -> HandleAdditionalDialog(m)
      [] name = "HandleDialog" -> HandleDialog(m, a[1], a[2])
      [] name = "HandleSavePasswordDialog" -> HandleSavePasswordDialog(m)
      [] name = "HandleReadingListSync" -> HandleReadingListSync(m)
      [] name = "SwitchToEnglishKeyboard" -> SwitchToEnglishKeyboard(m)
      [] name = "IsLoggedIn" -> IsLoggedIn(m)
      [] name = "IsOnLoginPage" -> IsOnLoginPage(m)
      [] name = "GetErrorMessage" -> GetErrorMessage(m)
      [] name = "VisibleOrScroll" -> VisibleOrScroll(m, a[1])
      [] name = "NavigateToLogin" -> NavigateToLogin(m)
      [] name = "EnterUsername" -> EnterUsername(m, a[1])
      [] name = "EnterPassword" -> EnterPassword(m, a[1])
      [] name = "ToggleRememberMe" -> ToggleRememberMe(m)
      [] name = "ClickLogin" -> ClickLogin(m)
      [] name = "VerifyLogin" -> VerifyLogin(m, a[1])
      [] name = "PostLoginChecks" -> PostLoginChecks(m)
      [] name = "AfterClick" -> AfterClick(m)
      [] name = "Login" -> Login(m, a[1], a[2], a[3])
      [] name = "ConfirmLogout" -> ConfirmLogout(m)
      [] name = "VerifyLogout" -> VerifyLogout(m)
      [] name = "Logout" -> Logout(m)
      [] name = "IsLoginButtonDisabled" -> IsLoginButtonDisabled(m)
      [] name = "ClearAllPossibleInputs" -> ClearAllPossibleInputs(m)
      [] name = "ClearFields" -> ClearFields(m, a[1])
      [] name = "InitDriver" -> InitDriver(m, a[1], a[2])
      [] name = "DriverQuit" -> DriverQuit(m, a[1])
      [] name = "BeforeTest" -> BeforeTest(m, a[1], a[2], a[3], a[4])
      [] name = "SetUp" -> SetUp(m, a[1], a[2], a[3], a[4])
      [] name = "ClickCancel" -> ClickCancel(m)
      [] name = "AfterTest" -> AfterTest(m, a[1], a[2])
      [] name = "TestBeforeTest" -> TestBeforeTest(m, a[1])
      [] name = "TestAfterTest" -> TestAfterTest(m)
      [] name = "DismissCaptcha" -> DismissCaptcha(m)
      [] name = "DismissSavePassword" -> DismissSavePassword(m)
      [] name = "Preamble" -> Preamble(m)
      [] name = "TestSuccessfulLogin" -> TestSuccessfulLogin(m)
      [] name = "ExpectRejection" -> ExpectRejection(m)
      [] name = "TestInvalidPassword" -> TestInvalidPassword(m)
      [] name = "TestInvalidUsername" -> TestInvalidUsername(m)
      [] name = "TestEmptyCredentials" -> TestEmptyCredentials(m)
      [] name = "TestRememberMe" -> TestRememberMe(m)
      [] name = "SetupTeardown" -> SetupTeardown(m)

----------------------------------------------------------------------------
(* The life cycle of one test (tests/conftest.py, tests/test_auth.py):     *)
(* driver fixture, autouse setup fixture, test body, teardown of setup,    *)
(* cleanup of the driver fixture.                                          *)

Platforms == {"ios", "android"}

\* The value of unit during the life cycle of a test.
NoUnit == [op |-> "none"]

M == [app |-> app, sess |-> sess, log |-> log, exc |-> NoExc, ret |-> None]

Commit(r) == app' = r.app /\ sess' = r.sess /\ log' = r.log

Init ==
    /\ test \in Tests
    /\ platformOpt \in Platforms
    /\ cfg \in Configs
    /\ app \in InitialApps(platformOpt)
    /\ sess = "none"
    /\ drv = "None"
    /\ log = << >>
    /\ pc = "driver_fixture"
    /\ outcome = "running"
    /\ unit = NoUnit

\* conftest.driver up to the yield: Driver(platform).init_driver()
DriverFixture ==
    /\ pc = "driver_fixture"
    /\ \E opened \in BOOLEAN :
       \E r \in {Call("InitDriver", M, <<platformOpt, opened>>)} :
          /\ Commit(r)
          /\ drv' = IF Raised(r) THEN "None" ELSE "set"
          /\ pc' = IF Raised(r) THEN "done" ELSE "setup"
          /\ outcome' = IF Raised(r) THEN "error" ELSE outcome
    /\ UNCHANGED <<test, platformOpt, cfg, unit>>

\* TestAuthentication.setup up to the yield: AuthPage(driver), before_test()
SetupFixture ==
    /\ pc = "setup"
    /\ \E wdaOk \in BOOLEAN :
       \E r \in {Done("setup", Call("TestBeforeTest", Enter(M, "setup"), <<wdaOk>>))} :
          /\ Commit(r)
          /\ pc' = IF Raised(r) THEN "teardown_driver" ELSE "call"
          /\ outcome' = IF Raised(r) THEN "error" ELSE outcome
    /\ UNCHANGED <<test, platformOpt, cfg, drv, unit>>

\* conftest.pytest_runtest_makereport: after a failed test body the session
\* is asked for a screenshot.
MakeReport(r) == IF Raised(r) THEN Screenshot(Swallow(r)) ELSE r

\* The test body ran to r.  When the screenshot of the report raises inside
\* the hook, pytest either goes on to the teardown or ends the run.
Called(name, r) ==
    /\ \E h \in {MakeReport(Done(name, r))} :
          /\ Commit(h)
          /\ pc' \in IF Raised(h) THEN {"teardown_setup", "done"} ELSE {"teardown_setup"}
    /\ outcome' = IF Raised(r) THEN "failed" ELSE "passed"
    /\ UNCHANGED <<test, platformOpt, cfg, drv, unit>>

CallSuccessfulLogin ==
    /\ pc = "call"
    /\ test = "test_successful_login"
    /\ \E r \in {Call("TestSuccessfulLogin", Enter(M, test), << >>)} : Called(test, r)

CallInvalidPassword ==
    /\ pc = "call"
    /\ test = "test_invalid_password"
    /\ \E r \in {Call("TestInvalidPassword", Enter(M, test), << >>)} : Called(test, r)

CallInvalidUsername ==
    /\ pc = "call"
    /\ test = "test_invalid_username"
    /\ \E r \in {Call("TestInvalidUsername", Enter(M, test), << >>)} : Called(test, r)

CallEmptyCredentials ==
    /\ pc = "call"
    /\ test = "test_empty_credentials"
    /\ \E r \in {Call("TestEmptyCredentials", Enter(M, test), << >>)} : Called(test, r)

CallRememberMe ==
    /\ pc = "call"
    /\ test = "test_remember_me"
    /\ \E r \in {Call("TestRememberMe", Enter(M, test), << >>)} : Called(test, r)

\* TestAuthentication.setup after the yield
TeardownSetup ==
    /\ pc = "teardown_setup"
    /\ \E r \in {Call("SetupTeardown", M, << >>)} :
          /\ Commit(r)
          /\ outcome' = IF Raised(r) THEN "error" ELSE outcome
    /\ pc' = "teardown_driver"
    /\ UNCHANGED <<test, platformOpt, cfg, drv, unit>>

\* conftest.driver after the yield: driver_instance.quit()
TeardownDriver ==
    /\ pc = "teardown_driver"
    /\ \E r \in {Call("DriverQuit", M, <<drv>>)} : Commit(Event(r, <<"end", test>>))
    /\ drv' = "None"
    /\ pc' = "done"
    /\ UNCHANGED <<test, platformOpt, cfg, outcome, unit>>

Next ==
    \/ DriverFixture
    \/ SetupFixture
    \/ CallSuccessfulLogin
    \/ CallInvalidPassword
    \/ CallInvalidUsername
    \/ CallEmptyCredentials
    \/ CallRememberMe
    \/ TeardownSetup
    \/ TeardownDriver

Spec == Init /\ [][Next]_vars

----------------------------------------------------------------------------
(* utils/driver.py: retry_on_failure and Driver.wait_for_element.          *)
(* The wrapper is followed one iteration of its while loop at a time; the  *)
(* k-th invocation of the wrapped function ends as outcomes[k] tells.      *)

Ok == "ok"

Outcomes == {Ok, TimeoutException, NoSuchElementException, WebDriverException}

\* The largest max_attempts drawn for a wrapped function.
MaxAttempts == 3

\* @retry_on_failure(max_attempts=3, delay=1) on Driver.wait_for_element
WAIT_FOR_ELEMENT_ATTEMPTS == 3

\* The body of Driver.wait_for_element: WebDriverWait(...).until(condition),
\* both except clauses log and raise the exception again.
DriverWaitBody(alive, present) ==
    IF ~alive THEN WebDriverException
    ELSE IF present THEN Ok ELSE TimeoutException

\* A call of a wrapped function, before its first invocation.
RetryCall(fn, max_attempts, outcomes) ==
    [op |-> "retry", fn |-> fn, max_attempts |-> max_attempts, outcomes |-> outcomes,
     attempts |-> 0, calls |-> << >>, status |-> "running", exc |-> NoExc, result |-> 0]

\* func, wrapped by retry_on_failure(max_attempts): every way its invocations
\* can end.
FuncCalls ==
    UNION {{RetryCall("func", n, o) : o \in [1..n -> Outcomes]} : n \in 0..MaxAttempts}

\* Driver.wait_for_element on a live or dead session, the element present or
\* not at each invocation.
WaitForElementCalls ==
    {RetryCall("wait_for_element", WAIT_FOR_ELEMENT_ATTEMPTS,
               [k \in 1..WAIT_FOR_ELEMENT_ATTEMPTS |-> DriverWaitBody(alive, present[k])]) :
        alive \in BOOLEAN, present \in [1..WAIT_FOR_ELEMENT_ATTEMPTS -> BOOLEAN]}

\* One iteration of the wrapper, were the last failure compared with
\* max_attempts before attempts is counted up: the loop then ends and None is
\* returned.
RetryOnFailureStepLate(u) ==
    IF u.attempts >= u.max_attempts
    THEN [u EXCEPT !.status = "returned", !.result = 0]
    ELSE LET k == Len(u.calls) + 1
             c == [u EXCEPT !.calls = Append(@, u.outcomes[k])]
         IN IF u.outcomes[k] = Ok
            THEN [c EXCEPT !.status = "returned", !.result = k]
            ELSE IF u.attempts = u.max_attempts
            THEN [c EXCEPT !.attempts = @ + 1, !.status = "raised", !.exc = u.outcomes[k]]
            ELSE [c EXCEPT !.attempts = @ + 1]

\* One iteration of "while attempts < max_attempts" of the wrapper; result is
\* the number of the invocation whose value is returned, 0 for None.
RetryOnFailureStep(u) ==
    IF u.attempts >= u.max_attempts
    THEN [u EXCEPT !.status = "returned", !.result = 0]
    ELSE LET k == Len(u.calls) + 1
             c == [u EXCEPT !.calls = Append(@, u.outcomes[k])]
         IN IF u.outcomes[k] = Ok
            THEN [c EXCEPT !.status = "returned", !.result = k]
            ELSE IF u.attempts + 1 = u.max_attempts
            THEN [c EXCEPT !.attempts = @ + 1, !.status = "raised", !.exc = u.outcomes[k]]
            ELSE [c EXCEPT !.attempts = @ + 1]

----------------------------------------------------------------------------
(* Single functions on drawn inputs: the waits and query helpers on every  *)
(* screen of the app, the clearing statistics on every page, the retry     *)
(* wrapper on every sequence of outcomes.                                  *)

Locators ==
    {PROFILE_BUTTON, LOGIN_BUTTON, USERNAME_FIELD, PASSWORD_FIELD, REMEMBER_ME_CHECKBOX,
     LOGIN_SUBMIT_BUTTON, LOGOUT_BUTTON, SAVE_PASSWORD_DIALOG, SAVE_PASSWORD_BUTTON,
     SAVE_PASSWORD_NOT_NOW, READING_LIST_SYNC_DIALOG, READING_LIST_SYNC_BUTTON,
     NEXT_KEYBOARD_BUTTON, CAPTCHA_TEXT, CAPTCHA_CANCEL_BUTTON, ERROR_XPATH, LOGIN_HEADER}

\* The screens the app can show: the login form only to a logged-out user,
\* with or without an error label and a CAPTCHA, its fields taking the keys
\* in one of the three ways; the log-out confirmation and the dialogs that
\* follow a login only to a logged-in user.
UnitApps ==
    {a \in {[AppState(p, s, li, c) EXCEPT !.error = e, !.saveDlg = d, !.syncDlg = d,
                                         !.keys = k] :
                p \in Platforms, s \in Screens, li \in BOOLEAN, c \in BOOLEAN,
                e \in {"", INCORRECT_MESSAGE, OTHER_ERROR_MESSAGE}, d \in BOOLEAN,
                k \in {"exact", "other", "none"}} :
        /\ a.keys # "exact" => a.screen = "login"
        /\ a.screen = "login" => ~a.loggedIn
        /\ a.screen = "confirm" => a.loggedIn
        /\ (a.error # "" \/ a.captcha) => a.screen = "login"
        /\ a.saveDlg => a.loggedIn /\ a.screen = "main"}

\* The largest number of fields of one element type on a page.
MaxFields == 1

\* The pages: so many fields of each element type, numbered from 1.
Numbered(from, n) == [i \in 1..n |-> from + i]

Pages ==
    {[text |-> Numbered(0, t), secure |-> Numbered(t, s), view |-> Numbered(t + s, v),
      search |-> Numbered(t + s + v, w)] :
        t \in 0..MaxFields, s \in 0..MaxFields, v \in 0..MaxFields, w \in 0..MaxFields}

FieldsOf(page) ==
    {page.text[i] : i \in DOMAIN page.text} \cup {page.secure[i] : i \in DOMAIN page.secure}
    \cup {page.view[i] : i \in DOMAIN page.view} \cup {page.search[i] : i \in DOMAIN page.search}

\* A call of clear_all_possible_inputs: the page, the fields whose clear()
\* raises, and whether find_elements raises.
ClearCalls ==
    UNION {{[op |-> "clear", page |-> page, failing |-> failing, findRaises |-> fr,
             status |-> "running"] : failing \in SUBSET FieldsOf(page), fr \in BOOLEAN} :
           page \in Pages}

\* The apps login is called on: the fields take the keys in one of the three
\* ways, the main screen after the login shows the profile button, hides it
\* or does not have it yet, and the session survives the submission or not.
LoginApps ==
    {[a EXCEPT !.keys = k, !.landing = l, !.lost = x] :
        a \in InitialApps("ios"), k \in {"exact", "other", "none"},
        l \in {"visible", "hidden", "absent"}, x \in BOOLEAN}

\* The largest number of calls made on one Driver object.
MaxCalls == 3

\* The apps a Driver object cleans up after: any screen, the Cancel button of
\* the CAPTCHA taking the tap or not.
DriverApps ==
    {b \in {[a EXCEPT !.stuck = k] : a \in UnitApps, k \in BOOLEAN} :
        b.keys = "exact" /\ (b.stuck => b.captcha)}

\* The app of the calls that send no driver command.
IdleApp == AppState("ios", "terminated", FALSE, FALSE)

UnitInit ==
    /\ test = "none"
    /\ log = << >>
    /\ outcome = "running"
    /\ \/ /\ pc = "helper"
          /\ cfg = [accept |-> TRUE, saveDlg |-> FALSE, syncDlg |-> FALSE, confirm |-> FALSE]
          /\ app \in UnitApps
          /\ platformOpt = app.platform
          /\ sess \in {"alive", "quit"}
          /\ unit = NoUnit
          /\ drv = "None"
       \/ /\ pc = "logout"
          /\ cfg \in {c \in Configs : c.accept /\ ~c.saveDlg /\ ~c.syncDlg}
          /\ app \in UnitApps
          /\ platformOpt = app.platform
          /\ sess \in {"alive", "quit"}
          /\ unit = NoUnit
          /\ drv = "None"
       \/ /\ pc = "driver"
          /\ cfg = [accept |-> TRUE, saveDlg |-> FALSE, syncDlg |-> FALSE, confirm |-> FALSE]
          /\ app \in DriverApps
          /\ platformOpt = app.platform
          /\ \E d \in {<<"set", "alive">>, <<"set", "quit">>, <<"None", "none">>} :
                drv = d[1] /\ sess = d[2]
          /\ unit = [op |-> "Driver", calls |-> 0]
       \/ /\ pc = "login"
          /\ cfg \in Configs
          /\ app \in LoginApps
          /\ platformOpt = "ios"
          /\ sess \in {"alive", "quit"}
          /\ unit = NoUnit
          /\ drv = "None"
       \/ /\ pc \in {"clear", "retry"}
          /\ cfg = [accept |-> TRUE, saveDlg |-> FALSE, syncDlg |-> FALSE, confirm |-> FALSE]
          /\ app = IdleApp
          /\ platformOpt = "ios"
          /\ sess = "none"
          /\ drv = "None"
          /\ unit \in IF pc = "clear" THEN ClearCalls ELSE FuncCalls \cup WaitForElementCalls

\* The call of a helper on the app, with the result r.
Helped(name, loc, condition, r) ==
    /\ Commit(r)
    /\ unit' = [op |-> name, loc |-> loc, condition |-> condition, app |-> app,
                alive |-> Alive(M), exc |-> r.exc, ret |-> r.ret]
    /\ pc' = "done"
    /\ UNCHANGED <<test, platformOpt, cfg, drv, outcome>>

\* BasePage._wait_for_element / _wait_for_visible / _wait_for_clickable
UnitBaseWait ==
    /\ pc = "helper"
    /\ \E loc \in Locators :
          \/ \E r \in {Call("WaitForElement", M, <<loc, "presence">>)} :
                Helped("_wait_for_element", loc, "presence", r)
          \/ \E r \in {Call("WaitForVisible", M, <<loc>>)} :
                Helped("_wait_for_visible", loc, "visible", r)
          \/ \E r \in {Call("WaitForClickable", M, <<loc>>)} :
                Helped("_wait_for_clickable", loc, "clickable", r)

\* BaseHandler._wait_for_visible / _wait_for_clickable
UnitHandlerWait ==
    /\ pc = "helper"
    /\ \E loc \in Locators :
          \/ \E r \in {Call("HandlerWaitForVisible", M, <<loc>>)} :
                Helped("handler._wait_for_visible", loc, "visible", r)
          \/ \E r \in {Call("HandlerWaitForClickable", M, <<loc>>)} :
                Helped("handler._wait_for_clickable", loc, "clickable", r)

\* BasePage._is_element_present / _is_element_visible / _get_element_text /
\* _get_element_attribute
UnitBaseQuery ==
    /\ pc = "helper"
    /\ \E loc \in Locators :
          \/ \E r \in {Call("IsElementPresent", M, <<loc>>)} :
                Helped("_is_element_present", loc, "presence", r)
          \/ \E r \in {Call("IsElementVisible", M, <<loc>>)} :
                Helped("_is_element_visible", loc, "visible", r)
          \/ \E r \in {Call("GetElementText", M, <<loc>>)} :
                Helped("_get_element_text", loc, "visible", r)
          \/ \E r \in {Call("GetElementAttribute", M, <<loc>>)} :
                Helped("_get_element_attribute", loc, "presence", r)

\* AuthPage.is_logged_in / is_on_login_page / get_error_message
UnitAuthQuery ==
    /\ pc = "helper"
    /\ \/ \E r \in {Call("IsLoggedIn", M, << >>)} :
             Helped("is_logged_in", PROFILE_BUTTON, "visible", r)
       \/ \E r \in {Call("IsOnLoginPage", M, << >>)} :
             Helped("is_on_login_page", LOGIN_HEADER, "visible", r)
       \/ \E r \in {Call("GetErrorMessage", M, << >>)} :
             Helped("get_error_message", ERROR_XPATH, "presence", r)

\* The call of enter_username or enter_password with the text, with the
\* result r; value is what the field reads back after the call.
Entered(name, loc, text, r) ==
    /\ Commit(r)
    /\ unit' = [op |-> name, loc |-> loc, text |-> text, app |-> app, alive |-> Alive(M),
                exc |-> r.exc, ret |-> r.ret, value |-> FieldValue(r.app, loc)]
    /\ pc' = "done"
    /\ UNCHANGED <<test, platformOpt, cfg, drv, outcome>>

\* AuthPage.enter_username / enter_password
UnitEnter ==
    /\ pc = "helper"
    /\ \/ \E text \in {VALID_USERNAME, INVALID_USERNAME} :
          \E r \in {Call("EnterUsername", M, <<text>>)} :
             Entered("enter_username", USERNAME_FIELD, text, r)
       \/ \E text \in {VALID_PASSWORD, INVALID_PASSWORD} :
          \E r \in {Call("EnterPassword", M, <<text>>)} :
             Entered("enter_password", PASSWORD_FIELD, text, r)

\* DialogHandler.handle_save_password_dialog / handle_reading_list_sync
UnitDialog ==
    /\ pc = "helper"
    /\ \/ \E r \in {Call("HandleSavePasswordDialog", M, << >>)} :
             Helped("handle_save_password_dialog", SAVE_PASSWORD_DIALOG, "visible", r)
       \/ \E r \in {Call("HandleReadingListSync", M, << >>)} :
             Helped("handle_reading_list_sync", READING_LIST_SYNC_DIALOG, "visible", r)

\* AuthPage.navigate_to_login
UnitNavigate ==
    /\ pc = "helper"
    /\ \E r \in {Call("NavigateToLogin", M, << >>)} :
          Helped("navigate_to_login", LOGIN_BUTTON, "clickable", r)

\* AuthPage.is_login_button_disabled
UnitButton ==
    /\ pc = "helper"
    /\ \E r \in {Call("IsLoginButtonDisabled", M, << >>)} :
          Helped("is_login_button_disabled", LOGIN_SUBMIT_BUTTON, "visible", r)

\* AuthPage.login
UnitLogin ==
    /\ pc = "login"
    /\ \E username \in {VALID_USERNAME, INVALID_USERNAME},
          password \in {VALID_PASSWORD, INVALID_PASSWORD}, remember_me \in BOOLEAN :
       \E r \in {Call("Login", M, <<username, password, remember_me>>)} :
          /\ Commit(r)
          /\ unit' = [op |-> "login", username |-> username, password |-> password,
                      remember_me |-> remember_me, app |-> app, alive |-> Alive(M),
                      exc |-> r.exc, ret |-> r.ret]
    /\ pc' = "done"
    /\ UNCHANGED <<test, platformOpt, cfg, drv, outcome>>

\* AuthPage.logout, with or without a confirmation asked by the app
UnitLogout ==
    /\ pc = "logout"
    /\ \E r \in {Call("Logout", M, << >>)} :
          Helped("logout", LOGOUT_BUTTON, "clickable", r)

\* A call on the Driver object with the result r: self.driver, the session
\* and the app at entry are kept in unit.
DriverCalled(name, r) ==
    /\ Commit(r)
    /\ drv' = DriverAfterQuit(drv)
    /\ unit' = [op |-> name, calls |-> unit.calls + 1, drv |-> drv, alive |-> Alive(M),
                app |-> app, exc |-> r.exc, ret |-> r.ret]
    /\ UNCHANGED <<test, platformOpt, cfg, pc, outcome>>

\* Driver.quit on the Driver object
UnitDriverQuit ==
    /\ pc = "driver"
    /\ unit.calls < MaxCalls
    /\ \E r \in {Call("DriverQuit", M, <<drv>>)} : DriverCalled("Driver.quit", r)

\* Driver.after_test on the Driver object
UnitDriverAfterTest ==
    /\ pc = "driver"
    /\ unit.calls < MaxCalls
    /\ \E r \in {Call("AfterTest", M, <<platformOpt, drv>>)} :
          DriverCalled("Driver.after_test", r)

\* The statistics a clear_all_possible_inputs returned.
Cleared(owner, stats) ==
    /\ unit' = [unit EXCEPT !.status = "returned"] @@ [owner |-> owner, stats |-> stats]
    /\ pc' = "done"
    /\ UNCHANGED <<test, platformOpt, cfg, app, sess, drv, log, outcome>>

\* AuthPage.clear_all_possible_inputs
UnitAuthClear ==
    /\ pc = "clear"
    /\ Cleared("AuthPage",
               AuthClearAllPossibleInputs(unit.page, unit.findRaises, unit.failing))

\* FieldHandler.clear_all_possible_inputs
UnitHandlerClear ==
    /\ pc = "clear"
    /\ Cleared("FieldHandler",
               HandlerClearAllPossibleInputs(unit.page, unit.findRaises, unit.failing))

\* One iteration of the retry wrapper's loop.
RetryAttempt ==
    /\ pc = "retry"
    /\ unit.status = "running"
    /\ unit' = RetryOnFailureStep(unit)
    /\ UNCHANGED <<test, platformOpt, cfg, app, sess, drv, log, pc, outcome>>

UnitNext ==
    \/ UnitBaseWait
    \/ UnitHandlerWait
    \/ UnitBaseQuery
    \/ UnitAuthQuery
    \/ UnitEnter
    \/ UnitDialog
    \/ UnitNavigate
    \/ UnitButton
    \/ UnitLogin
    \/ UnitLogout
    \/ UnitDriverQuit
    \/ UnitDriverAfterTest
    \/ UnitAuthClear
    \/ UnitHandlerClear
    \/ RetryAttempt

UnitSpec == UnitInit /\ [][UnitNext]_vars

----------------------------------------------------------------------------
(* run_tests.py: the tests run on two workers (-n=2).  Each worker runs     *)
(* the life cycle of its test with a session of its own; the simulator of   *)
(* before_test and after_test is the one fixed simulator, so app is the     *)
(* app of both.  test, sess, drv, pc and outcome are functions of the       *)
(* worker.  A step of a worker is one phase of the life cycle.              *)

NumWorkers == 2

Workers == 1..NumWorkers

\* The simulator of Driver.before_test and Driver.after_test.
SIMULATOR_ID == "6D346A21-DB65-45A1-AEEE-0CD3925B13F2"

\* The device of the worker's test.
Device(w) == SIMULATOR_ID

\* The machine of worker w: the shared app, the worker's own session.
WorkerM(w) == [app |-> app, sess |-> sess[w], log |-> log, exc |-> NoExc, ret |-> None]

WorkerCommit(w, r) ==
    /\ app' = r.app
    /\ sess' = [sess EXCEPT ![w] = r.sess]
    /\ log' = r.log

\* The test function of a test.
TestFunction(t) ==
    CASE t = "test_successful_login" -> "TestSuccessfulLogin"
      [] t = "test_invalid_password" -> "TestInvalidPassword"
      [] t = "test_invalid_username" -> "TestInvalidUsername"
      [] t = "test_empty_credentials" -> "TestEmptyCredentials"
      [] t = "test_remember_me" -> "TestRememberMe"

\* Each worker is given a test of the list; no test is given twice.  The
\* app shows its dialogs and asks to confirm a log-out.
ParInit ==
    /\ test \in {t \in [Workers -> Tests] : \A v, w \in Workers : v # w => t[v] # t[w]}
    /\ platformOpt = "ios"
    /\ cfg \in {c \in Configs : c.saveDlg /\ c.syncDlg /\ c.confirm}
    /\ app = AppState("ios", "main", FALSE, FALSE)
    /\ sess = [w \in Workers |-> "none"]
    /\ drv = [w \in Workers |-> "None"]
    /\ log = << >>
    /\ pc = [w \in Workers |-> "driver_fixture"]
    /\ outcome = [w \in Workers |-> "running"]
    /\ unit = NoUnit

\* conftest.driver up to the yield, on worker w
WorkerDriverFixture(w) ==
    /\ pc[w] = "driver_fixture"
    /\ \E r \in {Call("InitDriver", WorkerM(w), <<platformOpt, TRUE>>)} :
          /\ WorkerCommit(w, r)
          /\ drv' = [drv EXCEPT ![w] = "set"]
          /\ pc' = [pc EXCEPT ![w] = "setup"]
    /\ UNCHANGED <<test, platformOpt, cfg, outcome, unit>>

\* TestAuthentication.setup up to the yield, on worker w
WorkerSetupFixture(w) ==
    /\ pc[w] = "setup"
    /\ \E r \in {Done("setup", Call("TestBeforeTest", Enter(WorkerM(w), "setup"), <<TRUE>>))} :
          /\ WorkerCommit(w, r)
          /\ pc' = [pc EXCEPT ![w] = IF Raised(r) THEN "teardown_driver" ELSE "call"]
          /\ outcome' = [outcome EXCEPT ![w] = IF Raised(r) THEN "error" ELSE @]
    /\ UNCHANGED <<test, platformOpt, cfg, drv, unit>>

\* The test body and the report hook, on worker w
WorkerCall(w) ==
    /\ pc[w] = "call"
    /\ \E r \in {Call(TestFunction(test[w]), Enter(WorkerM(w), test[w]), << >>)} :
       \E h \in {MakeReport(Done(test[w], r))} :
          /\ WorkerCommit(w, h)
          /\ \E p \in IF Raised(h) THEN {"teardown_setup", "done"} ELSE {"teardown_setup"} :
                pc' = [pc EXCEPT ![w] = p]
          /\ outcome' = [outcome EXCEPT ![w] = IF Raised(r) THEN "failed" ELSE "passed"]
    /\ UNCHANGED <<test, platformOpt, cfg, drv, unit>>

\* TestAuthentication.setup after the yield, on worker w
WorkerTeardownSetup(w) ==
    /\ pc[w] = "teardown_setup"
    /\ \E r \in {Call("SetupTeardown", WorkerM(w), << >>)} :
          /\ WorkerCommit(w, r)
          /\ outcome' = [outcome EXCEPT ![w] = IF Raised(r) THEN "error" ELSE @]
    /\ pc' = [pc EXCEPT ![w] = "teardown_driver"]
    /\ UNCHANGED <<test, platformOpt, cfg, drv, unit>>

\* conftest.driver after the yield, on worker w
WorkerTeardownDriver(w) ==
    /\ pc[w] = "teardown_driver"
    /\ \E r \in {Call("DriverQuit", WorkerM(w), <<drv[w]>>)} :
          WorkerCommit(w, Event(r, <<"end", test[w]>>))
    /\ drv' = [drv EXCEPT ![w] = "None"]
    /\ pc' = [pc EXCEPT ![w] = "done"]
    /\ UNCHANGED <<test, platformOpt, cfg, outcome, unit>>

ParNext ==
    \/ \E w \in Workers : WorkerDriverFixture(w)
    \/ \E w \in Workers : WorkerSetupFixture(w)
    \/ \E w \in Workers : WorkerCall(w)
    \/ \E w \in Workers : WorkerTeardownSetup(w)
    \/ \E w \in Workers : WorkerTeardownDriver(w)

ParSpec == ParInit /\ [][ParNext]_vars

----------------------------------------------------------------------------
(* Reading the history *)

\* The event e is of the kind and name given: a call, return or raise of a
\* function, a driver command of a kind, or an answer of the app.
IsEvent(e, kind, name) == e[1] = kind /\ e[2] = name

Range(s) == {s[i] : i \in DOMAIN s}

Events(kind, name) == {i \in DOMAIN log : IsEvent(log[i], kind, name)}

\* The driver commands sent, and the quits among them.
Cmds == {i \in DOMAIN log : log[i][1] = "cmd"}

Quits == Events("cmd", "quit")

----------------------------------------------------------------------------
(* The session of a test *)

\* C1: the session the driver fixture opened for a test is quit exactly once,
\* at the end of the test, and no driver command is sent on it after the quit:
\* no command follows a quit in the history (so there is at most one quit),
\* and a test that is over and had a session has quit it.
C1_SessionQuitOnceAtEnd ==
    /\ \A q \in Quits : \A i \in Cmds : i <= q
    /\ (pc = "done" /\ sess # "none") => Quits # {}

\* The tests that do not quit the session in their own body keep to C1.
C1_OtherTestsQuitOnce == test # "test_empty_credentials" => C1_SessionQuitOnceAtEnd

----------------------------------------------------------------------------
(* Driver.init_driver *)

\* C4, as the code has it: every call of init_driver asks for the remote
\* session exactly once and then returns or raises, without a retry; when it
\* raises in the driver fixture the test ends in an error at once.
C4_InitDriverAttemptedOnce ==
    /\ \A i \in Events("call", "init_driver") :
          /\ log[i + 1][1] = "remote"
          /\ IsEvent(log[i + 2], "return", "init_driver")
                \/ IsEvent(log[i + 2], "raise", "init_driver")
    /\ Events("raise", "init_driver") # {} => pc = "done" /\ outcome = "error"

\* The session could not be opened and init_driver raised.
C4_Witness ==
    /\ Events("raise", "init_driver") # {}
    /\ Cardinality({i \in DOMAIN log : log[i][1] = "remote"}) = 1

\* C4, as stated: when opening the remote session fails, the attempt is
\* repeated before the error is propagated, so that an init_driver that raised
\* has asked for the session more than once.
C4_InitDriverRetried ==
    \A i \in Events("raise", "init_driver") :
        Cardinality({k \in 1..i : log[k][1] = "remote"}) > 1

----------------------------------------------------------------------------
(* AuthPage.login *)

\* The part of the history from the call of click_login inside the call of
\* login that returned at j, to that return.
AfterLoginClick(j) ==
    LET called == CHOOSE i \in Events("call", "login") :
                     i < j /\ \A k \in Events("call", "login") : k < j => k <= i
    IN {k \in called..j : \E c \in Events("call", "click_login") : called < c /\ c < k}

ErrorFound(ks) ==
    \E k \in ks : IsEvent(log[k], "return", "get_error_message") /\ log[k][3] # None

SeenLoggedIn(ks) == \E k \in ks : IsEvent(log[k], "return", "is_logged_in") /\ log[k][3] = "True"

Answered(ks, answer) == \E k \in ks : IsEvent(log[k], "app", answer)

----------------------------------------------------------------------------
(* Rejected credentials *)

\* C8: once the app rejected submitted credentials with an error message, the
\* user is not logged in, login (when it was called) returns False, no dialog
\* handler is called, and every later is_on_login_page returns True and every
\* later get_error_message the error text.
C8_RejectedLogin ==
    \A i \in Events("app", "rejected") :
        /\ ~app.loggedIn
        /\ \A k \in i..Len(log) :
              /\ ~IsEvent(log[k], "app", "accepted")
              /\ ~IsEvent(log[k], "call", "handle_save_password_dialog")
              /\ ~IsEvent(log[k], "call", "handle_reading_list_sync")
              /\ IsEvent(log[k], "return", "login") => log[k][3] = "False"
              /\ IsEvent(log[k], "return", "is_on_login_page") => log[k][3] = "True"
              /\ IsEvent(log[k], "return", "get_error_message") => log[k][3] # None
              /\ ~IsEvent(log[k], "raise", "get_error_message")

\* test_invalid_username passed: the app rejected the submission, and the
\* test found the error message and the login page afterwards.
C8_Witness ==
    /\ test = "test_invalid_username"
    /\ pc = "done"
    /\ outcome = "passed"
    /\ \E i \in Events("app", "rejected") :
          /\ \E k \in i..Len(log) : IsEvent(log[k], "return", "get_error_message")
          /\ \E k \in i..Len(log) : IsEvent(log[k], "return", "is_on_login_page")

----------------------------------------------------------------------------
(* The teardown of TestAuthentication.setup *)

\* C9: the teardown calls AuthPage.logout if and only if the user is logged
\* in when the test body has ended.
C9_LogoutIffLoggedIn ==
    [][pc = "teardown_setup" =>
          ((\E i \in DOMAIN log' : IsEvent(log'[i], "call", "logout")) <=> app.loggedIn)]_vars

\* The half of C9 that forbids: logout is never called for a logged-out user.
C9_NoLogoutWhenLoggedOut ==
    [][(pc = "teardown_setup" /\ ~app.loggedIn) =>
          ~\E i \in DOMAIN log' : IsEvent(log'[i], "call", "logout")]_vars

----------------------------------------------------------------------------
(* The waits and the query helpers *)

BaseWaits == {"_wait_for_element", "_wait_for_visible", "_wait_for_clickable"}

HandlerWaits == {"handler._wait_for_visible", "handler._wait_for_clickable"}

FalseHelpers == {"_is_element_present", "_is_element_visible", "is_logged_in", "is_on_login_page"}

NoneHelpers == {"_get_element_text", "_get_element_attribute", "get_error_message"}

\* The helper ran on a live session and its element did not satisfy the
\* awaited condition.
TimedOut == unit.alive /\ ~Satisfied(unit.app, unit.loc, unit.condition)

\* C2: is_logged_in never raises, and returns True only when the user is
\* logged in; on every screen of a logged-out user it returns False.
C2_IsLoggedInOnlyWhenLoggedIn ==
    unit.op = "is_logged_in" =>
        /\ unit.exc = NoExc
        /\ unit.ret \in {"True", "False"}
        /\ unit.ret = "True" => unit.app.loggedIn

\* The part of C2 that the code keeps: is_logged_in never raises.
C2_IsLoggedInNeverRaises ==
    unit.op = "is_logged_in" => unit.exc = NoExc /\ unit.ret \in {"True", "False"}

\* All invocations Driver.wait_for_element made of its body timed out.
AllTimedOut ==
    /\ unit.status # "running"
    /\ \A k \in DOMAIN unit.calls : unit.calls[k] = TimeoutException

\* C6, as the code has it: a wait of BasePage whose element does not satisfy
\* the condition raises TimeoutException, and so does Driver.wait_for_element
\* when every invocation timed out; a wait of BaseHandler returns None instead.
C6_WaitsOnTimeout ==
    /\ (unit.op \in BaseWaits /\ TimedOut) => unit.exc = TimeoutException
    /\ (unit.op \in HandlerWaits /\ TimedOut) => unit.exc = NoExc /\ unit.ret = None
    /\ (unit.op = "retry" /\ unit.fn = "wait_for_element" /\ AllTimedOut) =>
          unit.status = "raised" /\ unit.exc = TimeoutException

\* A wait of BaseHandler whose element is not there returned None.
C6_Witness ==
    /\ unit.op \in HandlerWaits
    /\ TimedOut
    /\ unit.ret = None

\* C6, as stated: every wait whose element does not satisfy the condition
\* raises a timeout error, the waits of BaseHandler included.
C6_EveryWaitRaisesTimeout ==
    /\ (unit.op \in BaseWaits \cup HandlerWaits /\ TimedOut) => unit.exc = TimeoutException
    /\ (unit.op = "retry" /\ unit.fn = "wait_for_element" /\ AllTimedOut) =>
          unit.status = "raised" /\ unit.exc = TimeoutException

\* C10: a query helper never raises TimeoutException or
\* NoSuchElementException; when its element does not appear it returns its
\* sentinel, False or None.
C10_QueryHelpersReturnSentinel ==
    unit.op \in FalseHelpers \cup NoneHelpers =>
        /\ unit.exc \notin {TimeoutException, NoSuchElementException}
        /\ TimedOut => /\ unit.exc = NoExc
                       /\ unit.ret = IF unit.op \in FalseHelpers THEN "False" ELSE None

\* _get_element_text returned None for an element that is not on the screen.
C10_Witness ==
    /\ unit.op = "_get_element_text"
    /\ unit.alive
    /\ ElemState(unit.app, unit.loc) = "absent"
    /\ unit.ret = None
    /\ <<"cmd", "find", unit.loc>> \in Range(log)

----------------------------------------------------------------------------
(* retry_on_failure *)

\* C5: a function wrapped with max_attempts = N >= 1 is invoked at most N
\* times; the wrapper returns the result of the first invocation that
\* succeeds, after which there is no other; when N invocations raised it
\* raises the exception of the N-th; Driver.wait_for_element has N = 3.
C5_RetryOnFailure ==
    (unit.op = "retry" /\ unit.max_attempts >= 1) =>
        /\ Len(unit.calls) <= unit.max_attempts
        /\ \A k \in DOMAIN unit.calls : unit.calls[k] = unit.outcomes[k]
        /\ \A k \in 1..(Len(unit.calls) - 1) : unit.calls[k] # Ok
        /\ unit.status = "running" =>
              /\ Len(unit.calls) < unit.max_attempts
              /\ \A k \in DOMAIN unit.calls : unit.calls[k] # Ok
        /\ unit.status = "returned" =>
              /\ unit.calls # << >>
              /\ unit.calls[Len(unit.calls)] = Ok
              /\ unit.result = Len(unit.calls)
        /\ unit.status = "raised" =>
              /\ Len(unit.calls) = unit.max_attempts
              /\ unit.calls[unit.max_attempts] # Ok
              /\ unit.exc = unit.outcomes[unit.max_attempts]
        /\ unit.fn = "wait_for_element" => unit.max_attempts = 3

\* The second of three allowed invocations succeeded and its result was
\* returned.
C5_Witness ==
    /\ unit.op = "retry"
    /\ unit.max_attempts = 3
    /\ unit.status = "returned"
    /\ unit.result = 2
    /\ unit.calls[1] # Ok

----------------------------------------------------------------------------
(* clear_all_possible_inputs *)

\* C7: the statistics of AuthPage.clear_all_possible_inputs and of
\* FieldHandler.clear_all_possible_inputs satisfy fields_found =
\* fields_cleared + fields_failed, whatever fields are found and whichever of
\* them fail to clear; when finding the fields raises, all three are 0.
C7_ClearStats ==
    (unit.op = "clear" /\ unit.status = "returned") =>
        /\ unit.stats.fields_found = unit.stats.fields_cleared + unit.stats.fields_failed
        /\ unit.findRaises => unit.stats = ZeroStats

\* FieldHandler cleared some fields of a page and failed to clear others.
C7_Witness ==
    /\ unit.op = "clear"
    /\ unit.status = "returned"
    /\ unit.owner = "FieldHandler"
    /\ unit.stats.fields_cleared >= 1
    /\ unit.stats.fields_failed >= 1

----------------------------------------------------------------------------
(* Entering the credentials *)

Entries == {"enter_username", "enter_password"}

\* C11: enter_username and enter_password complete successfully only if the
\* value read back from the field after typing equals the text that was
\* entered; a mismatch makes them raise.
C11_EntryVerified ==
    unit.op \in Entries =>
        /\ unit.exc = NoExc => unit.value = unit.text
        /\ (unit.alive /\ unit.value # unit.text) => unit.exc # NoExc

\* What the code does keep: a successful entry leaves the field non-empty,
\* and one of enter_password a value that is not the placeholder.
C11_EntryNonEmpty ==
    (unit.op \in Entries /\ unit.exc = NoExc) =>
        /\ unit.ret = "True"
        /\ unit.value # ""
        /\ unit.op = "enter_password" => unit.value # PASSWORD_PLACEHOLDER

----------------------------------------------------------------------------
(* The state of the login button *)

\* The login submit button was there to be found and inspected.
ButtonFound ==
    unit.alive /\ ElemState(unit.app, LOGIN_SUBMIT_BUTTON) = "visible"

\* C12: is_login_button_disabled returns True exactly when the login submit
\* button was found and is not both enabled and clickable, and gives neither
\* True nor False for a button that could not be found or inspected.
C12_ButtonDisabled ==
    unit.op = "is_login_button_disabled" =>
        /\ ButtonFound =>
              /\ unit.exc = NoExc
              /\ unit.ret = PyBool(~ElemEnabled(unit.app, LOGIN_SUBMIT_BUTTON))
        /\ ~ButtonFound => ~(unit.exc = NoExc /\ unit.ret \in {"True", "False"})

\* The part that holds: the answer for a button that was found.
C12_FoundButton ==
    (unit.op = "is_login_button_disabled" /\ ButtonFound) =>
        /\ unit.exc = NoExc
        /\ unit.ret = PyBool(~ElemEnabled(unit.app, LOGIN_SUBMIT_BUTTON))

\* The part that holds: in test_empty_credentials, whose fields were all
\* cleared, an is_login_button_disabled that inspected the button returns True.
C12_DisabledAfterClearing ==
    \A i \in DOMAIN log :
        (/\ IsEvent(log[i], "return", "is_login_button_disabled")
         /\ \E j \in 1..(i - 1) :
               /\ log[j] = <<"cmd", "is_enabled", LOGIN_SUBMIT_BUTTON>>
               /\ \A k \in j..i : ~IsEvent(log[k], "call", "is_login_button_disabled"))
        => log[i][3] = "True"

----------------------------------------------------------------------------
(* The two workers *)

\* The test of worker w is running: its session was opened and its life
\* cycle has not ended.
Running(w) == pc[w] \in {"setup", "call", "teardown_setup", "teardown_driver"}

\* Worker w takes this step.
StepOf(w) == pc'[w] # pc[w]

\* C13: tests that run at the same time on the two workers are independent:
\* no test boots, launches, drives or terminates the app on the device that
\* another running test is using, so the app of a running test changes only
\* by that test's own steps.
C13_IndependentWorkers ==
    [][\A v, w \in Workers :
          (v # w /\ Running(v) /\ StepOf(w) /\ Device(v) = Device(w)) => app' = app]_vars

\* The two running tests own different devices.
C13_OwnDevice ==
    \A v, w \in Workers : (v # w /\ Running(v) /\ Running(w)) => Device(v) # Device(w)

----------------------------------------------------------------------------
(* The steps of login *)

LoginSteps ==
    <<"navigate_to_login", "enter_username", "enter_password", "toggle_remember_me",
      "click_login", "get_error_message", "handle_save_password_dialog",
      "handle_reading_list_sync", "is_logged_in">>

\* The calls of the steps of login in the history, and the place of each in
\* the order of the steps.
StepCalls == {i \in DOMAIN log : log[i][1] = "call" /\ log[i][2] \in Range(LoginSteps)}

StepNo(i) == CHOOSE n \in DOMAIN LoginSteps : LoginSteps[n] = log[i][2]

\* The step was called and returned without raising before position i.
ReturnedBefore(name, i) == \E k \in Events("return", name) : k < i

\* The taps on the remember-me checkbox.
RememberTaps == {i \in DOMAIN log : log[i] = <<"cmd", "click", REMEMBER_ME_CHECKBOX>>}

\* C14: login runs its steps in the order navigate, username, password,
\* remember-me, click, error check, save-password dialog, reading-list dialog,
\* verification; the login button is not clicked before navigate, enter_username
\* and enter_password returned, that is, both credentials were entered; the remember-me
\* checkbox is tapped exactly once before the click when remember_me is True
\* and never when it is False.
C14_LoginOrder ==
    unit.op = "login" =>
        /\ \A i, j \in StepCalls :
              i < j => \/ StepNo(i) < StepNo(j)
                       \/ log[i][2] = "is_logged_in" /\ log[j][2] = "is_logged_in"
        /\ \A c \in Events("call", "click_login") :
              /\ ReturnedBefore("navigate_to_login", c)
              /\ ReturnedBefore("enter_username", c)
              /\ ReturnedBefore("enter_password", c)
        /\ \A c \in Events("cmd", "click") :
              log[c][3] = LOGIN_SUBMIT_BUTTON =>
                 \E k \in Events("call", "click_login") : k < c
        /\ \A c \in Events("call", "click_login") :
              Cardinality({t \in RememberTaps : t < c}) = IF unit.remember_me THEN 1 ELSE 0
        /\ Cardinality(RememberTaps) = Cardinality(Events("call", "toggle_remember_me"))
        /\ Cardinality(RememberTaps) <= IF unit.remember_me THEN 1 ELSE 0

\* login with remember_me went through all its steps and returned True.
C14_Witness ==
    /\ unit.op = "login" /\ unit.remember_me /\ unit.ret = "True"
    /\ \A n \in DOMAIN LoginSteps : Events("call", LoginSteps[n]) # {}
    /\ Cardinality(RememberTaps) = 1

----------------------------------------------------------------------------
(* The verification of a login *)

\* The evaluations of is_logged_in in the history, and those that gave False.
Verifications == Events("return", "is_logged_in")

FailedVerifications == {i \in Verifications : log[i][3] = "False"}

\* login was submitted and no error message was found.
SubmittedWithoutError ==
    /\ unit.op = "login"
    /\ Events("return", "click_login") # {}
    /\ ~ErrorFound(DOMAIN log)

\* C15: after a submission with no error message, login evaluates is_logged_in
\* at most 3 times, and returns False for a failed verification only after
\* is_logged_in was found False on 3 separate attempts.
C15_VerifiedThreeTimes ==
    SubmittedWithoutError =>
        /\ Cardinality(Verifications) <= VerifyAttempts
        /\ (unit.exc = NoExc /\ unit.ret = "False") =>
              Cardinality(FailedVerifications) = VerifyAttempts

\* The part that holds: is_logged_in is evaluated at most 3 times, never again
\* after it gave True, and login returns True only after it gave True.
C15_AtMostThreeAttempts ==
    SubmittedWithoutError =>
        /\ Cardinality(Verifications) <= VerifyAttempts
        /\ \A i, j \in Verifications : i < j => log[i][3] = "False"
        /\ (unit.exc = NoExc /\ unit.ret = "True") =>
              \E i \in Verifications : log[i][3] = "True"

----------------------------------------------------------------------------
(* Failures in login *)

\* The steps of login up to the click, and the failures among the steps.
StepsToClick ==
    {"navigate_to_login", "enter_username", "enter_password", "toggle_remember_me",
     "click_login"}

StepRaised(names) == \E i \in DOMAIN log : log[i][1] = "raise" /\ log[i][2] \in names

\* C16: login raises when navigate, enter_username, enter_password,
\* toggle_remember_me or click_login failed; once the click was done it does
\* not raise, every later failure becoming the result False; and it does not
\* return True after a step has failed.
C16_LoginFailures ==
    unit.op = "login" =>
        /\ StepRaised(StepsToClick) => unit.exc # NoExc
        /\ Events("return", "click_login") # {} =>
              unit.exc = NoExc /\ unit.ret \in {"True", "False"}
        /\ (unit.exc = NoExc /\ unit.ret = "True") => ~StepRaised(Range(LoginSteps))

\* The part that holds: the failures up to the click are raised, True is not
\* returned after a failed step, and login raises after the click only when
\* the session was lost.
C16_FailuresWithSession ==
    unit.op = "login" =>
        /\ StepRaised(StepsToClick) => unit.exc # NoExc
        /\ (Events("return", "click_login") # {} /\ sess = "alive") =>
              unit.exc = NoExc /\ unit.ret \in {"True", "False"}
        /\ (unit.exc = NoExc /\ unit.ret = "True") => ~StepRaised(Range(LoginSteps))

----------------------------------------------------------------------------
(* The way to the login form *)

\* The elements tapped, in the order of the taps.
RECURSIVE TapsOf(_)
TapsOf(h) ==
    IF h = << >> THEN << >>
    ELSE IF Head(h)[1] = "cmd" /\ Head(h)[2] = "click" THEN <<Head(h)[3]>> \o TapsOf(Tail(h))
    ELSE TapsOf(Tail(h))

Scrolls == Events("cmd", "scroll")

\* is_on_login_page answered True.
AlreadyOnLoginPage == \E i \in Events("return", "is_on_login_page") : log[i][3] = "True"

\* C17: navigate_to_login taps and scrolls nothing and returns when
\* is_on_login_page is True; otherwise it taps the profile button and then the
\* "Log in / Join Wikipedia" button, each once and in this order, and raises
\* when one of the two did not become visible and clickable.
C17_NavigateToLogin ==
    unit.op = "navigate_to_login" =>
        /\ AlreadyOnLoginPage =>
              TapsOf(log) = << >> /\ Scrolls = {} /\ unit.exc = NoExc
        /\ ~AlreadyOnLoginPage =>
              /\ TapsOf(log) \in {<< >>, <<PROFILE_BUTTON>>, <<PROFILE_BUTTON, LOGIN_BUTTON>>}
              /\ unit.exc = NoExc <=> TapsOf(log) = <<PROFILE_BUTTON, LOGIN_BUTTON>>
              /\ unit.exc = NoExc <=>
                    /\ unit.alive
                    /\ Satisfied(unit.app, PROFILE_BUTTON, "clickable")
                    /\ Satisfied(AppClick(unit.app, PROFILE_BUTTON), LOGIN_BUTTON, "clickable")

\* navigate_to_login went from the main screen to the login form by its two taps.
C17_Witness ==
    /\ unit.op = "navigate_to_login" /\ unit.exc = NoExc
    /\ TapsOf(log) = <<PROFILE_BUTTON, LOGIN_BUTTON>>
    /\ app.screen = "login"

\* navigate_to_login left the login form alone.
C17_WitnessOnLoginPage ==
    /\ unit.op = "navigate_to_login" /\ AlreadyOnLoginPage
    /\ unit.exc = NoExc /\ app = unit.app

----------------------------------------------------------------------------
(* Logging out *)

\* The commands of a kind on an element.
CmdsOn(kind, loc) == {i \in DOMAIN log : log[i] = <<"cmd", kind, loc>>}

\* The taps on the "Log out" button: the button of the profile menu and the
\* button of the confirmation have one locator.
LogoutTaps == CmdsOn("click", LOGOUT_BUTTON)

C18_WitnessRaised ==
    /\ unit.op = "logout" /\ unit.exc # NoExc /\ unit.alive
    /\ TapsOf(log) = <<PROFILE_BUTTON>>

\* C19: the confirmation of a log-out is optional: when no confirm button
\* shows up in time logout does not fail for it and goes on to the
\* verification; the confirm button is tapped at most once, and only after the
\* log-out button was tapped.
C19_OptionalConfirmation ==
    unit.op = "logout" =>
        /\ \E n \in 0..3 : TapsOf(log) = SubSeq(<<PROFILE_BUTTON, LOGOUT_BUTTON, LOGOUT_BUTTON>>, 1, n)
        /\ (unit.alive /\ LogoutTaps # {} /\ ~cfg.confirm) =>
              /\ Cardinality(LogoutTaps) = 1
              /\ \E v \in CmdsOn("find", LOGIN_BUTTON) : \A t \in LogoutTaps : t < v
              /\ unit.exc = NoExc

\* logout returned although the app asked for no confirmation.
C19_Witness ==
    /\ unit.op = "logout" /\ ~cfg.confirm /\ unit.exc = NoExc
    /\ TapsOf(log) = <<PROFILE_BUTTON, LOGOUT_BUTTON>>
    /\ ~app.loggedIn

\* logout tapped the confirm button of the app that asked for a confirmation.
C19_WitnessConfirmed ==
    /\ unit.op = "logout" /\ cfg.confirm /\ unit.exc = NoExc
    /\ TapsOf(log) = <<PROFILE_BUTTON, LOGOUT_BUTTON, LOGOUT_BUTTON>>

----------------------------------------------------------------------------
(* The dialogs after a login *)

DialogHandlers == {"handle_save_password_dialog", "handle_reading_list_sync"}

\* A dialog handler failed inside: the session refused its commands, or it
\* went on to _handle_additional_dialog, whose body always raises.
DialogFailed ==
    \/ unit.op \in DialogHandlers /\ ~unit.alive
    \/ Events("call", "_handle_additional_dialog") # {}

\* C20: handle_save_password_dialog and handle_reading_list_sync never let an
\* exception out, whatever happens to their commands; in login they always
\* return, and the result of login is decided by the verification alone: with
\* the session kept, an accepted login whose main screen shows the profile
\* button returns True whether or not the dialogs were shown and handled.
C20_DialogsNeverRaise ==
    /\ unit.op \in DialogHandlers => unit.exc = NoExc /\ unit.ret = None
    /\ unit.op = "login" =>
          /\ \A h \in DialogHandlers :
                /\ Events("raise", h) = {}
                /\ Cardinality(Events("return", h)) = Cardinality(Events("call", h))
          /\ (unit.exc = NoExc /\ Events("call", "is_logged_in") # {}) =>
                (unit.ret = "True" <=> SeenLoggedIn(DOMAIN log))
          /\ (Answered(DOMAIN log, "accepted") /\ unit.app.landing = "visible"
                 /\ ~unit.app.lost) => unit.ret = "True"

\* A dialog handler returned on a session that refuses every command.
C20_Witness ==
    /\ unit.op \in DialogHandlers /\ ~unit.alive
    /\ unit.exc = NoExc
    /\ Events("cmd", "find") # {}

\* login returned True although the handling of a dialog failed inside.
C20_WitnessLogin ==
    /\ unit.op = "login" /\ unit.ret = "True"
    /\ cfg.saveDlg /\ DialogFailed

----------------------------------------------------------------------------
(* What a dialog handler touches *)

\* The button a dialog handler taps.
ButtonOf(handler) ==
    IF handler = "handle_save_password_dialog" THEN SAVE_PASSWORD_BUTTON
    ELSE READING_LIST_SYNC_BUTTON

\* C21: a dialog handler taps nothing when its alert is not visible; it taps
\* its button, and nothing else, only after it saw the alert displayed; and
\* it goes on to the additional dialog only after that tap.
C21_DialogTaps ==
    unit.op \in DialogHandlers =>
        /\ ~Satisfied(unit.app, unit.loc, "visible") => TapsOf(log) = << >>
        /\ TapsOf(log) \in {<< >>, <<ButtonOf(unit.op)>>}
        /\ \A t \in CmdsOn("click", ButtonOf(unit.op)) :
              /\ \E d \in CmdsOn("is_displayed", unit.loc) : d < t
              /\ Satisfied(unit.app, unit.loc, "visible")
        /\ \A a \in Events("call", "_handle_additional_dialog") :
              \E t \in CmdsOn("click", ButtonOf(unit.op)) : t < a

\* A dialog handler tapped the button of its visible alert and went on to the
\* additional dialog.
C21_Witness ==
    /\ unit.op \in DialogHandlers
    /\ TapsOf(log) = <<ButtonOf(unit.op)>>
    /\ Events("call", "_handle_additional_dialog") # {}
    /\ unit.app.saveDlg /\ ~app.saveDlg

\* A dialog handler left alone an app that shows no alert.
C21_WitnessNoDialog ==
    /\ unit.op \in DialogHandlers /\ unit.alive
    /\ ~Satisfied(unit.app, unit.loc, "visible")
    /\ TapsOf(log) = << >> /\ app = unit.app

----------------------------------------------------------------------------
(* The Driver object *)

\* C22: Driver.quit never raises and leaves self.driver None, also when the
\* quit of the session raised; over every sequence of quit and after_test
\* calls on one Driver object the session is asked to quit at most once.
C22_QuitSafe ==
    /\ unit.op = "Driver.quit" => unit.exc = NoExc /\ drv = "None"
    /\ pc = "driver" => Cardinality(Quits) <= 1

\* Driver.quit returned with self.driver None although the session, already
\* quit, refused the command.
C22_Witness ==
    /\ unit.op = "Driver.quit" /\ unit.drv = "set" /\ ~unit.alive
    /\ unit.exc = NoExc /\ drv = "None"
    /\ Cardinality(Quits) = 1

\* Three calls were made on one Driver object and the session was quit once.
C22_WitnessSequence ==
    /\ pc = "driver" /\ unit.calls = MaxCalls
    /\ Events("call", "Driver.quit") # {} /\ Events("call", "Driver.after_test") # {}
    /\ Cardinality(Quits) = 1 /\ sess = "quit"

----------------------------------------------------------------------------
(* The clean-up of Driver.after_test *)

\* The history of the last call of after_test.
LastAfterTest ==
    LET c == CHOOSE i \in Events("call", "Driver.after_test") :
                \A k \in Events("call", "Driver.after_test") : k <= i
    IN {i \in DOMAIN log : i >= c}

\* The app was terminated during the last call of after_test.
Terminated == \E i \in LastAfterTest : log[i] = <<"simctl", "terminate">>

\* after_test was entered on iOS with a session that was alive.
AliveAtEntry == platformOpt = "ios" /\ unit.drv = "set" /\ unit.alive

\* C23: Driver.after_test never raises and ends with self.driver None, also
\* when the Cancel lookup, the tap on Cancel or the termination failed; on iOS
\* the app is terminated in every run entered with a session that was alive.
C23_AfterTestCleansUp ==
    unit.op = "Driver.after_test" =>
        /\ unit.exc = NoExc
        /\ drv = "None"
        /\ AliveAtEntry => Terminated

\* The part that holds: after_test never raises, leaves self.driver None and
\* the session not alive, and terminates the app on iOS unless a command of
\* the Cancel lookup failed with something other than NoSuchElementException.
C23_AfterTestNeverRaises ==
    unit.op = "Driver.after_test" =>
        /\ unit.exc = NoExc
        /\ drv = "None"
        /\ sess # "alive"
        /\ (AliveAtEntry /\ ~(unit.app.stuck /\ unit.app.screen = "login")) => Terminated
        /\ Terminated => platformOpt = "ios"

----------------------------------------------------------------------------
(* The screen a test starts on *)

\* The steps of a test that need the login form.
FormSteps == {"clear_all_possible_inputs", "enter_username", "enter_password", "click_login"}

\* The test body began at position b of the history.
BodyStart(b) == IsEvent(log[b], "call", test)

\* Before position i, and within the test body, the app was seen on the login
\* page or brought to it.
OnLoginPageBefore(i) ==
    \E b \in DOMAIN log : \E j \in DOMAIN log :
        /\ BodyStart(b) /\ b < j /\ j < i
        /\ \/ log[j] = <<"return", "is_on_login_page", "True">>
           \/ IsEvent(log[j], "return", "navigate_to_login")

\* The steps of the test body that need the login form.
FormStepCalls ==
    {i \in DOMAIN log : /\ log[i][1] = "call" /\ log[i][2] \in FormSteps
                        /\ \E b \in DOMAIN log : BodyStart(b) /\ b < i}

\* C24: whatever screen the app was left on, a test clears fields, enters
\* credentials or clicks the login button only after it found the app on the
\* login page or brought it there.
C24_LoginPageFirst == \A i \in FormStepCalls : OnLoginPageBefore(i)

\* The part that holds: the tests other than test_invalid_username.
C24_OtherTestsLoginPageFirst ==
    test # "test_invalid_username" => \A i \in FormStepCalls : OnLoginPageBefore(i)

----------------------------------------------------------------------------
(* The platform of a test *)

\* The branch of Driver.before_test / Driver.after_test that ran: the iOS
\* branch drives the simulator with simctl, the Android branch activates the
\* app over the session.
RanIosBranch == \E i \in DOMAIN log : log[i][1] = "simctl"

RanAndroidBranch == Events("cmd", "activate_app") # {}

\* C25: the platform selected with --platform is the platform of the whole
\* test: the session is created for it, and before_test and after_test of
\* the test class run its branch of Driver.before_test and Driver.after_test,
\* never the branch of the other platform.
C25_SelectedPlatform ==
    /\ \A i \in DOMAIN log : log[i][1] = "remote" => log[i][2] = platformOpt
    /\ RanIosBranch => platformOpt = "ios"
    /\ RanAndroidBranch => platformOpt = "android"
    /\ Events("return", "Driver.before_test") # {} =>
          IF platformOpt = "ios" THEN RanIosBranch ELSE RanAndroidBranch

\* The part that holds: the session is created for the selected platform, and
\* once only.
C25_SessionForPlatform ==
    /\ \A i \in DOMAIN log : log[i][1] = "remote" => log[i][2] = platformOpt
    /\ Cardinality({i \in DOMAIN log : log[i][1] = "remote"}) <= 1
    /\ ~RanAndroidBranch

----------------------------------------------------------------------------
(* The cleanup after a test *)

\* The calls of the teardown half of the setup fixture.
Cleanups == Events("call", "setup.teardown")

\* The failures raised by fn after the cleanup began.
RaisedInCleanup(fn) ==
    {i \in Events("raise", fn) : \E c \in Cleanups : c < i}

\* C26: the teardown half of the setup fixture never raises: a failure of
\* is_on_login_page, is_logged_in or logout during the cleanup is caught, the
\* cleanup returns, and the outcome of the test stays what the test function
\* made it: a test that passed stays passed.
C26_CleanupNeverRaises ==
    /\ Events("raise", "setup.teardown") = {}
    /\ pc \in {"teardown_driver", "done"} /\ Cleanups # {} =>
          Events("return", "setup.teardown") # {}
    /\ Events("return", test) # {} => outcome = "passed"
    /\ Events("raise", test) # {} => outcome = "failed"

\* logout failed during the cleanup, and the cleanup returned.
C26_Witness ==
    /\ RaisedInCleanup("logout") # {}
    /\ Events("return", "setup.teardown") # {}
    /\ pc = "teardown_driver"

\* A test passed, the cleanup logged the user out and returned.
C26_WitnessPassed ==
    /\ outcome = "passed"
    /\ \E c \in Cleanups : \E i \in Events("return", "logout") : c < i
    /\ Events("return", "setup.teardown") # {}

====
